---- MODULE Spec2Model ----
(***************************************************************************)
(* Model of the manchego transaction import pipeline:                      *)
(*   transactions/parsing.py, transactions/identification.py,              *)
(*   transactions/discovery.py, transactions/loader.py and the             *)
(*   DatabaseConnection context manager of database/connection.py.         *)
(*                                                                         *)
(* Text is modelled as a sequence of one-character strings, so that        *)
(* strip(), lower(), substring tests, float() and strptime() are computed  *)
(* and not assumed.  A CSV file is the sequence of rows csv.reader yields, *)
(* each row a sequence of fields.  Amounts are integers in hundredths.     *)
(***************************************************************************)
EXTENDS Integers, Sequences, FiniteSets, TLC

(***************************************************************************)
(* Bounds of the model.                                                    *)
(***************************************************************************)
\* number of files the raw directory holds when the model starts
MaxFiles == 2
\* number of import_transactions runs
MaxRuns == 2

\* Python None, for optional text values (no text the model uses is empty
\* where None may occur)
None == <<>>

(***************************************************************************)
(* Text primitives (Python str methods).  Every operator takes the values  *)
(* it uses several times as parameters.                                    *)
(***************************************************************************)
DigitChars == {"0", "1", "2", "3", "4", "5", "6", "7", "8", "9"}

IsDigit(c) == c \in DigitChars

DigitVal(c) ==
    CASE c = "0" -> 0 [] c = "1" -> 1 [] c = "2" -> 2 [] c = "3" -> 3 [] c = "4" -> 4
      [] c = "5" -> 5 [] c = "6" -> 6 [] c = "7" -> 7 [] c = "8" -> 8 [] c = "9" -> 9

IsSpace(c) == c \in {" ", "\t"}

Uppers == <<"A", "B", "C", "D", "E", "F", "G", "H", "I", "J", "K", "L", "M",
            "N", "O", "P", "Q", "R", "S", "T", "U", "V", "W", "X", "Y", "Z">>

Lowers == <<"a", "b", "c", "d", "e", "f", "g", "h", "i", "j", "k", "l", "m",
            "n", "o", "p", "q", "r", "s", "t", "u", "v", "w", "x", "y", "z">>

LowerChar(c) == IF \E i \in 1..26 : Uppers[i] = c
                THEN Lowers[CHOOSE i \in 1..26 : Uppers[i] = c]
                ELSE c

\* str.lower()
Lower(s) == [i \in 1..Len(s) |-> LowerChar(s[i])]

MinOf(S) == CHOOSE i \in S : \A j \in S : i <= j

MaxOf(S) == CHOOSE i \in S : \A j \in S : j <= i

StripKeep(s, keep) == IF keep = {} THEN <<>> ELSE SubSeq(s, MinOf(keep), MaxOf(keep))

\* str.strip()
Strip(s) == StripKeep(s, {i \in 1..Len(s) : ~IsSpace(s[i])})

\* sub in s
Contains(s, sub) ==
    \E i \in 0..(Len(s) - Len(sub)) : SubSeq(s, i + 1, i + Len(sub)) = sub

\* s.endswith(suffix)
EndsWith(s, suffix) ==
    /\ Len(s) >= Len(suffix)
    /\ SubSeq(s, Len(s) - Len(suffix) + 1, Len(s)) = suffix

\* the k-th smallest element of a set of positions P; 0 for k = 0 and
\* past for k beyond the last
KthPos(P, k, past) ==
    IF k = 0 THEN 0
    ELSE IF k > Cardinality(P) THEN past
    ELSE CHOOSE i \in P : Cardinality({j \in P : j < i}) = k - 1

SplitAt(s, P) ==
    [k \in 1..(Cardinality(P) + 1) |->
        SubSeq(s, KthPos(P, k - 1, Len(s) + 1) + 1, KthPos(P, k, Len(s) + 1) - 1)]

\* s.split(sep) for a one-character separator
Split(s, sep) == SplitAt(s, {i \in 1..Len(s) : s[i] = sep})

\* value of a string of digits
DigitsVal(s) ==
    LET v[i \in 0..Len(s)] == IF i = 0 THEN 0 ELSE 10 * v[i - 1] + DigitVal(s[i])
    IN  v[Len(s)]

AllDigits(s) == \A i \in 1..Len(s) : IsDigit(s[i])

\* order of the characters dates are made of
CharOrd(c) ==
    CASE c = " " -> 32 [] c = "-" -> 45 [] c = "/" -> 47
      [] c = "0" -> 48 [] c = "1" -> 49 [] c = "2" -> 50 [] c = "3" -> 51
      [] c = "4" -> 52 [] c = "5" -> 53 [] c = "6" -> 54 [] c = "7" -> 55
      [] c = "8" -> 56 [] c = "9" -> 57

\* a < b for str
StrLess(a, b) ==
    \/ Len(a) < Len(b) /\ SubSeq(b, 1, Len(a)) = a
    \/ \E i \in 1..Len(a) :
          /\ i <= Len(b)
          /\ SubSeq(a, 1, i - 1) = SubSeq(b, 1, i - 1)
          /\ a[i] # b[i]
          /\ CharOrd(a[i]) < CharOrd(b[i])

(***************************************************************************)
(* float() and datetime.strptime(..., "%Y-%m-%d") on the decimal literals  *)
(* and dates the model feeds them.  float() is modelled on signed decimal  *)
(* literals (no exponent, inf, nan or underscores); its value is kept in   *)
(* hundredths, from the first two fractional digits.                       *)
(***************************************************************************)
Unsigned(s) == IF s # <<>> /\ s[1] \in {"-", "+"} THEN Tail(s) ELSE s

FloatPartsOk(parts) ==
    /\ Len(parts) \in {1, 2}
    /\ \A i \in 1..Len(parts) : AllDigits(parts[i])
    /\ \E i \in 1..Len(parts) : parts[i] # <<>>

\* float(s) does not raise ValueError
FloatOk(s) == FloatPartsOk(Split(Unsigned(s), "."))

FloatMag(parts) ==
    100 * DigitsVal(parts[1])
      + DigitsVal(SubSeq((IF Len(parts) = 2 THEN parts[2] ELSE <<>>) \o <<"0", "0">>, 1, 2))

Signed(s, mag) == IF s # <<>> /\ s[1] = "-" THEN 0 - mag ELSE mag

\* float(s), in hundredths
FloatVal(s) == Signed(s, FloatMag(Split(Unsigned(s), ".")))

IsLeap(y) == (y % 4 = 0 /\ y % 100 # 0) \/ y % 400 = 0

DaysInMonth(y, m) ==
    IF m = 2 THEN (IF IsLeap(y) THEN 29 ELSE 28)
    ELSE IF m \in {4, 6, 9, 11} THEN 30 ELSE 31

\* the regular expressions _strptime uses for %m and %d
MonthToken(t) ==
    \/ Len(t) = 2 /\ t[1] = "1" /\ t[2] \in {"0", "1", "2"}
    \/ Len(t) = 2 /\ t[1] = "0" /\ IsDigit(t[2]) /\ t[2] # "0"
    \/ Len(t) = 1 /\ IsDigit(t[1]) /\ t[1] # "0"

DayToken(t) ==
    \/ Len(t) = 2 /\ t[1] = "3" /\ t[2] \in {"0", "1"}
    \/ Len(t) = 2 /\ t[1] \in {"1", "2"} /\ IsDigit(t[2])
    \/ Len(t) = 2 /\ t[1] \in {"0", " "} /\ IsDigit(t[2]) /\ t[2] # "0"
    \/ Len(t) = 1 /\ IsDigit(t[1]) /\ t[1] # "0"

DatePartsOk(parts) ==
    /\ Len(parts) = 3
    /\ Len(parts[1]) = 4 /\ AllDigits(parts[1])
    /\ MonthToken(parts[2])
    /\ DayToken(parts[3])
    /\ DigitsVal(parts[1]) >= 1
    /\ DigitsVal(Strip(parts[3]))
           <= DaysInMonth(DigitsVal(parts[1]), DigitsVal(parts[2]))

\* datetime.strptime(s, "%Y-%m-%d") does not raise ValueError
StrptimeOk(s) == DatePartsOk(Split(s, "-"))

(***************************************************************************)
(* transactions/parsing.py                                                 *)
(***************************************************************************)
\* ParseError(row_num, message, row_data)
ParseError(row_num, message, row_data) ==
    [row_num |-> row_num, message |-> message, row_data |-> row_data]

\* str(ParseError) = f"Row {row_num}: {message}"
ParseErrorStr(e) == <<"Row ", e.row_num, ": ", e.message>>

Raise(e) == [ok |-> FALSE, err |-> e]

Return(v) == [ok |-> TRUE, val |-> v]

InvalidAmount(row, row_num, debit_str, credit_str) ==
    Raise(ParseError(row_num,
            <<"Invalid amount: debit=", debit_str, ", credit=", credit_str>>, row))

\* mutant: the credit field is looked at first
ParseAmount_CreditFirst(row, row_num, debit_str, credit_str) ==
    IF credit_str # <<>>
    THEN IF FloatOk(credit_str) THEN Return(FloatVal(credit_str))
         ELSE InvalidAmount(row, row_num, debit_str, credit_str)
    ELSE IF debit_str # <<>>
    THEN IF FloatOk(debit_str) THEN Return(0 - FloatVal(debit_str))
         ELSE InvalidAmount(row, row_num, debit_str, credit_str)
    ELSE Raise(ParseError(row_num, <<"Missing both debit and credit amounts">>, row))

\* the amount block of parse_row: debit first, then credit
ParseAmount(row, row_num, debit_str, credit_str) ==
    IF debit_str # <<>>
    THEN IF FloatOk(debit_str) THEN Return(0 - FloatVal(debit_str))
         ELSE InvalidAmount(row, row_num, debit_str, credit_str)
    ELSE IF credit_str # <<>>
    THEN IF FloatOk(credit_str) THEN Return(FloatVal(credit_str))
         ELSE InvalidAmount(row, row_num, debit_str, credit_str)
    ELSE Raise(ParseError(row_num, <<"Missing both debit and credit amounts">>, row))

\* the end of parse_row: the amount error, or the record
Transaction(uuid, date_str, description, amount) ==
    IF ~amount.ok THEN amount
    ELSE Return([id               |-> uuid,
                 transaction_date |-> date_str,
                 transaction_time |-> None,
                 description      |-> description,
                 amount           |-> amount.val,
                 currency         |-> "CAD"])

\* parse_row once the fields are extracted
ParseFields(row, row_num, uuid, date_str, description, debit_str, credit_str) ==
    IF date_str = <<>>
    THEN Raise(ParseError(row_num, <<"Missing transaction date">>, row))
    ELSE IF ~StrptimeOk(date_str)
    THEN Raise(ParseError(row_num, <<"Invalid date format: ", date_str>>, row))
    ELSE IF description = <<>>
    THEN Raise(ParseError(row_num, <<"Missing description">>, row))
    ELSE Transaction(uuid, date_str, description,
                     ParseAmount(row, row_num, debit_str, credit_str))

\* parse_row(row, row_num); uuid is the value uuid4() returns
parse_row(row, row_num, uuid) ==
    IF Len(row) < 4
    THEN Raise(ParseError(row_num,
                 <<"Row has ", Len(row), " columns, expected at least 4">>, row))
    ELSE ParseFields(row, row_num, uuid,
                     Strip(row[1]), Strip(row[2]), Strip(row[3]), Strip(row[4]))

\* the blank-row test of parse_transaction_file
IsBlankRow(row) == row = <<>> \/ \A i \in 1..Len(row) : Strip(row[i]) = <<>>

\* min(dates), max(dates)
MinStr(S) == CHOOSE a \in S : \A b \in S : ~StrLess(b, a)

MaxStr(S) == CHOOSE a \in S : \A b \in S : ~StrLess(a, b)

SeqRange(s) == {s[i] : i \in 1..Len(s)}

\* A file: its name, the rows csv.reader yields, and readFail = k > 0 when
\* reading it raises instead of yielding row k (1: it cannot be opened).
ReadableRows(file) ==
    IF file.readFail = 0 THEN file.rows
    ELSE SubSeq(file.rows, 1, file.readFail - 1)

ReadRaises(file) == file.readFail # 0

FileReadError == <<"File read error: ", <<"read failed">> >>

\* the for loop of parse_transaction_file, were it to stop at the first error
ParseStep_StopsAtError(acc, row, parsed_row) ==
    IF IsBlankRow(row) \/ acc.errors # <<>> THEN acc
    ELSE IF parsed_row.ok
    THEN [parsed_rows |-> Append(acc.parsed_rows, parsed_row.val),
          errors      |-> acc.errors,
          dates       |-> Append(acc.dates, parsed_row.val.transaction_date)]
    ELSE [parsed_rows |-> acc.parsed_rows,
          errors      |-> Append(acc.errors, parsed_row.err),
          dates       |-> acc.dates]

\* one pass of the for loop of parse_transaction_file
ParseStep(acc, row, parsed_row) ==
    IF IsBlankRow(row) THEN acc
    ELSE IF parsed_row.ok
    THEN [parsed_rows |-> Append(acc.parsed_rows, parsed_row.val),
          errors      |-> acc.errors,
          dates       |-> Append(acc.dates, parsed_row.val.transaction_date)]
    ELSE [parsed_rows |-> acc.parsed_rows,
          errors      |-> Append(acc.errors, parsed_row.err),
          dates       |-> acc.dates]

\* the for loop of parse_transaction_file; row_num counts every row read
ParseLoop(rows, salt) ==
    LET acc[n \in 0..Len(rows)] ==
            IF n = 0 THEN [parsed_rows |-> <<>>, errors |-> <<>>, dates |-> <<>>]
            ELSE ParseStep(acc[n - 1], rows[n], parse_row(rows[n], n, <<salt, n>>))
    IN  acc[Len(rows)]

\* what parse_transaction_file returns, from the loop's lists
ParseResult(acc, read_raised) ==
    [parsed_rows |-> acc.parsed_rows,
     errors      |-> IF read_raised
                     THEN Append(acc.errors, ParseError(0, FileReadError, None))
                     ELSE acc.errors,
     min_date    |-> IF acc.dates # <<>> THEN MinStr(SeqRange(acc.dates)) ELSE None,
     max_date    |-> IF acc.dates # <<>> THEN MaxStr(SeqRange(acc.dates)) ELSE None]

\* parse_transaction_file(file_path)
parse_transaction_file(file, salt) ==
    ParseResult(ParseLoop(ReadableRows(file), salt), ReadRaises(file))

(***************************************************************************)
(* transactions/identification.py                                          *)
(***************************************************************************)
PersonalVisa == <<"p", "e", "r", "s", "o", "n", "a", "l", "-", "v", "i", "s", "a">>
BusinessVisa == <<"b", "u", "s", "i", "n", "e", "s", "s", "-", "v", "i", "s", "a">>
PersonalChequing == <<"p", "e", "r", "s", "o", "n", "a", "l", "-", "c", "h", "e", "q", "u", "i", "n", "g">>
BusinessSavings == <<"b", "u", "s", "i", "n", "e", "s", "s", "-", "s", "a", "v", "i", "n", "g", "s">>

AccountLabels == {PersonalVisa, BusinessVisa, PersonalChequing, BusinessSavings}

VisaPersonalTok == <<"v", "i", "s", "a", "-", "p", "e", "r", "s", "o", "n", "a", "l">>
VisaBusinessTok == <<"v", "i", "s", "a", "-", "b", "u", "s", "i", "n", "e", "s", "s">>
ChequingPersonalTok == <<"c", "h", "e", "q", "u", "i", "n", "g", "-", "p", "e", "r", "s", "o", "n", "a", "l">>
SavingsBusinessTok == <<"s", "a", "v", "i", "n", "g", "s", "-", "b", "u", "s", "i", "n", "e", "s", "s">>
VisaTok == <<"v", "i", "s", "a">>
SuzanneTok == <<"s", "u", "z", "a", "n", "n", "e">>
SocanTok == <<"s", "o", "c", "a", "n">>
PersonalCardSuffix == <<"9", "2", "5", "6">>
BusinessCardSuffix == <<"4", "1", "2", "8">>

\* ACCOUNT_MAP
ACCOUNT_MAP ==
    [l \in AccountLabels |->
        IF l = PersonalVisa THEN "account-personal-visa-uuid"
        ELSE IF l = BusinessVisa THEN "account-business-visa-uuid"
        ELSE IF l = PersonalChequing THEN "account-checking-uuid"
        ELSE "account-savings-uuid"]

\* get_account_id(account_label); called with identified labels only
get_account_id(account_label) == ACCOUNT_MAP[account_label]

\* 1. filename override check
FilenameLabel(filename_lower) ==
    IF Contains(filename_lower, PersonalVisa) \/ Contains(filename_lower, VisaPersonalTok)
    THEN PersonalVisa
    ELSE IF Contains(filename_lower, BusinessVisa) \/ Contains(filename_lower, VisaBusinessTok)
    THEN BusinessVisa
    ELSE IF /\ (Contains(filename_lower, PersonalChequing)
                  \/ Contains(filename_lower, ChequingPersonalTok))
            /\ ~Contains(filename_lower, VisaTok)
    THEN PersonalChequing
    ELSE IF /\ (Contains(filename_lower, BusinessSavings)
                  \/ Contains(filename_lower, SavingsBusinessTok))
            /\ ~Contains(filename_lower, VisaTok)
    THEN BusinessSavings
    ELSE None

CardNumberLabel(card_number) ==
    IF EndsWith(card_number, PersonalCardSuffix) THEN PersonalVisa
    ELSE IF EndsWith(card_number, BusinessCardSuffix) THEN BusinessVisa
    ELSE None

\* 2. card number check on the first row
CardLabel(first_row) ==
    IF Len(first_row) = 5 THEN CardNumberLabel(Strip(first_row[5])) ELSE None

IntText(t) == Unsigned(t) # <<>> /\ AllDigits(Unsigned(t))

\* int(s) does not raise ValueError
IntOk(s) == IntText(Strip(s))

IntOf(t) == IF t[1] = "-" THEN 0 - DigitsVal(Tail(t)) ELSE DigitsVal(Unsigned(t))

\* int(s)
IntVal(s) == IntOf(Strip(s))

\* mutant: the band has no lower end
RentAmount_NoLowerEnd(amount_str) ==
    /\ amount_str # <<>>
    /\ FloatOk(amount_str)
    /\ FloatVal(amount_str) # 0
    /\ FloatVal(amount_str) <= 125000

\* the amount test of the rent check: amount and 1200 <= amount <= 1250
RentAmount(amount_str) ==
    /\ amount_str # <<>>
    /\ FloatOk(amount_str)
    /\ FloatVal(amount_str) # 0
    /\ 120000 <= FloatVal(amount_str)
    /\ FloatVal(amount_str) <= 125000

\* the date test of the rent check: int(date_str.split("-")[2]) in 1..3
RentDay(date_str, parts) ==
    /\ date_str # <<>>
    /\ Len(parts) >= 3
    /\ IntOk(parts[3])
    /\ 1 <= IntVal(parts[3])
    /\ IntVal(parts[3]) <= 3

RentFields(description, debit_str, credit_str, date_str) ==
    /\ Contains(description, SuzanneTok)
    /\ RentAmount(IF debit_str # <<>> THEN debit_str ELSE credit_str)
    /\ RentDay(date_str, Split(date_str, "-"))

\* 3. one row of the Suzanne rent check sets has_suzanne
RentRow(row) ==
    /\ Len(row) >= 3
    /\ RentFields(Lower(row[2]), Strip(row[3]),
                  IF Len(row) > 3 THEN Strip(row[4]) ELSE <<>>, Strip(row[1]))

HasToken(rows, tok) ==
    \E i \in 1..Len(rows) : Len(rows[i]) >= 2 /\ Contains(Lower(rows[i][2]), tok)

\* mutant: "suzanne" does not veto the classification
SocanLabel_NoVeto(rows) ==
    IF HasToken(rows, SocanTok) THEN BusinessSavings ELSE None

\* 4. the SOCAN check over all rows of a file that was read to its end
SocanLabel(rows) ==
    IF HasToken(rows, SocanTok) /\ ~HasToken(rows, SuzanneTok)
    THEN BusinessSavings ELSE None

\* what one open(file_path) of a file yields to its reader: the rows read,
\* and whether reading raised (readFail as for a file)
Reading(rows, readFail) ==
    [rows   |-> IF readFail = 0 THEN rows ELSE SubSeq(rows, 1, readFail - 1),
     raises |-> readFail # 0]

\* mutant: a card check that cannot read the file ends the identification
ContentLabelReads_CardReadAborts(card, rent, socan) ==
    IF card.rows = <<>> THEN None
    ELSE IF CardLabel(card.rows[1]) # None THEN CardLabel(card.rows[1])
    ELSE IF \E i \in 1..Len(rent.rows) : RentRow(rent.rows[i]) THEN PersonalChequing
    ELSE IF ~socan.raises THEN SocanLabel(socan.rows)
    ELSE None

\* heuristics 2 to 4, each on what its own open of the file yields
ContentLabelReads(card, rent, socan) ==
    IF ~card.raises /\ card.rows = <<>> THEN None
    ELSE IF card.rows # <<>> /\ CardLabel(card.rows[1]) # None THEN CardLabel(card.rows[1])
    ELSE IF \E i \in 1..Len(rent.rows) : RentRow(rent.rows[i]) THEN PersonalChequing
    ELSE IF ~socan.raises THEN SocanLabel(socan.rows)
    ELSE None

SameReading(reading) == ContentLabelReads(reading, reading, reading)

\* heuristics 2 to 4, on the rows read before a read error (if any)
ContentLabel(rows, read_raises) == SameReading([rows |-> rows, raises |-> read_raises])

\* mutant: the content heuristics are asked first
FirstLabel_ContentFirst(by_name, by_content) ==
    IF by_content # None THEN by_content ELSE by_name

FirstLabel(by_name, by_content) == IF by_name # None THEN by_name ELSE by_content

\* identify_account on a file whose three opens fail as fails says
\* (fails[i] = 0: the i-th open reads the whole file)
IdentifyOpens(name, rows, fails) ==
    FirstLabel(FilenameLabel(Lower(name)),
               ContentLabelReads(Reading(rows, fails[1]), Reading(rows, fails[2]),
                                 Reading(rows, fails[3])))

\* identify_account(file_path)
identify_account(file) ==
    FirstLabel(FilenameLabel(Lower(file.name)),
               ContentLabel(ReadableRows(file), ReadRaises(file)))

(***************************************************************************)
(* The files the external producer may have left in the raw directory.     *)
(***************************************************************************)
Csv == <<".", "c", "s", "v">>
Txt == <<".", "t", "x", "t">>
Date1 == <<"2", "0", "2", "5", "-", "0", "1", "-", "1", "5">>
Date2 == <<"2", "0", "2", "5", "-", "0", "1", "-", "0", "2">>
Card9256 == <<"4", "5", "0", "0", "*", "*", "*", "*", "9", "2", "5", "6">>

\* a clean visa row, a second clean visa row, a row with a bad amount
RowShop == <<Date1, <<"S", "h", "o", "p">>, <<"1", "0", ".", "5", "0">>, <<>>, Card9256>>
RowFuel == <<Date1, <<"F", "u", "e", "l">>, <<>>, <<"5">>, Card9256>>
RowRefund == <<Date2, <<"F", "u", "e", "l">>, <<>>, <<"5">>, Card9256>>
RowBadAmount == <<Date1, <<"S", "h", "o", "p">>, <<"a", "b", "c">>, <<>>, Card9256>>
RowUnknown == <<Date1, <<"M", "i", "s", "c">>, <<"1", "0", ".", "5", "0">>, <<>>>>
RowRent == <<Date2, <<"S", "u", "z", "a", "n", "n", "e">>, <<"1", "2", "4", "1", ".", "1", "5">>, <<>>>>

File(stem, ext, rows, readFail) ==
    [name |-> stem \o ext, rows |-> rows, readFail |-> readFail]

Universe ==
    { File(<<"a">>, Csv, <<RowShop>>, 0),
      File(<<"b">>, Csv, <<RowShop, RowRefund>>, 0),
      File(<<"c">>, Csv, <<RowBadAmount, <<>>, RowFuel>>, 0),
      File(<<"u">>, Csv, <<RowUnknown>>, 0),
      File(<<"v", "i", "s", "a", "-", "b", "u", "s", "i", "n", "e", "s", "s">>, Csv, <<>>, 0),
      File(<<"s", "a", "v", "i", "n", "g", "s", "-", "b", "u", "s", "i", "n", "e", "s", "s">>, Csv, <<RowUnknown>>, 1),
      File(<<"p", "e", "r", "s", "o", "n", "a", "l", "-", "v", "i", "s", "a">>, Txt, <<RowShop>>, 0) }

Names(S) == {f.name : f \in S}

(***************************************************************************)
(* Directories: functions from file names to files.                        *)
(***************************************************************************)
EmptyDir == [n \in {} |-> <<>>]

Put(dir, n, f) == [m \in DOMAIN dir \cup {n} |-> IF m = n THEN f ELSE dir[m]]

Remove(dir, n) == [m \in DOMAIN dir \ {n} |-> dir[m]]

\* mutant: the file is copied, the source is not removed
ShutilMove_Copies(srcdir, src, dstdir, dst) ==
    [src |-> srcdir, dst |-> Put(dstdir, dst, srcdir[src])]

\* shutil.move(src, dst) between two directories: the file at src replaces
\* whatever is at dst
ShutilMove(srcdir, src, dstdir, dst) ==
    [src |-> Remove(srcdir, src), dst |-> Put(dstdir, dst, srcdir[src])]

\* what open(file_path) finds: the file, or nothing to read
Missing(name) == [name |-> name, rows |-> <<>>, readFail |-> 1]

OpenFile(dir, name) == IF name \in DOMAIN dir THEN dir[name] ELSE Missing(name)

\* Path.stem of a name with a four-character extension
Stem(name) == SubSeq(name, 1, Len(name) - 4)

\* get_raw_transaction_files(): glob("*.csv")
get_raw_transaction_files(dir) == {n \in DOMAIN dir : EndsWith(n, Csv)}

\* the orders in which glob may list a set of names
Orders(S) ==
    {q \in [1..Cardinality(S) -> S] : \A i, j \in DOMAIN q : i # j => q[i] # q[j]}

(***************************************************************************)
(* transactions/loader.py: the values import_single_file computes.         *)
(***************************************************************************)
\* the "no rows" test after parsing
NoRows(parsed_rows, parse_errors) == parsed_rows = <<>> /\ parse_errors = <<>>

\* 3. generate new filename, were the two dates written the other way round
NewFilename_MaxFirst(label, min_date, max_date, stem) ==
    IF min_date # None /\ max_date # None
    THEN <<"C", "I", "B", "C", "_">> \o label \o <<"_">> \o max_date \o <<"_", "t", "o", "_">> \o min_date \o Csv
    ELSE <<"C", "I", "B", "C", "_">> \o label \o <<"_">> \o stem \o Csv

\* 3. generate new filename
NewFilename(label, min_date, max_date, stem) ==
    IF min_date # None /\ max_date # None
    THEN <<"C", "I", "B", "C", "_">> \o label \o <<"_">> \o min_date \o <<"_", "t", "o", "_">> \o max_date \o Csv
    ELSE <<"C", "I", "B", "C", "_">> \o label \o <<"_">> \o stem \o Csv

\* the row handed to INSERT INTO ledger (origin: the raw file the row was
\* read from, kept for the properties only)
LedgerRow(row, account_id, new_filename, origin) ==
    [id               |-> row.id,
     transaction_date |-> row.transaction_date,
     transaction_time |-> row.transaction_time,
     description      |-> row.description,
     amount           |-> row.amount,
     currency         |-> row.currency,
     account_id       |-> account_id,
     source_filename  |-> new_filename,
     vendor_id        |-> None,
     location_id      |-> None,
     category         |-> None,
     internal_note    |-> None,
     origin           |-> origin]

\* f"Row {row.get('id', 'unknown')}: {e!s}"
DbErrorStr(row, e) == <<"Row ", row.id, ": ", e>>

StrAll(parse_errors) == [i \in 1..Len(parse_errors) |-> ParseErrorStr(parse_errors[i])]

\* mutant: the result of the next early return is returned instead
ResIdentFailed_AsNoRows(name) ==
    [success |-> FALSE, file |-> name,
     reason |-> <<"No rows found">>, rows_imported |-> 0]

\* 1. identify_account returned None
ResIdentFailed(name) ==
    [success |-> FALSE, file |-> name,
     reason |-> <<"Account identification failed">>, rows_imported |-> 0]

\* mutant: a file without rows counts as imported
ResNoRows_Succeeded(name) ==
    [success |-> TRUE, file |-> name, rows_imported |-> 0]

\* 2. no parsed rows and no parse errors
ResNoRows(name) ==
    [success |-> FALSE, file |-> name,
     reason |-> <<"No rows found">>, rows_imported |-> 0]

\* mutant: a failed move is reported as a database error
ResMoveFailed_AsDbError(name, e) ==
    [success |-> FALSE, file |-> name,
     reason |-> <<"Database error: ", e>>, rows_imported |-> 0]

ResMoveFailed(name, e) ==
    [success |-> FALSE, file |-> name,
     reason |-> <<"Failed to move to backup: ", e>>, rows_imported |-> 0]

ResDbError(name, e, rows_imported, parse_errors, db_errors) ==
    [success |-> FALSE, file |-> name,
     reason |-> <<"Database error: ", e>>, rows_imported |-> rows_imported,
     parse_errors |-> StrAll(parse_errors), db_errors |-> db_errors]

\* mutant: step 6 looks at the parse errors only
CleanImport_IgnoresDbErrors(parse_errors, db_errors) == parse_errors = <<>>

\* 6. the file goes to imported only without parse errors and db errors
CleanImport(parse_errors, db_errors) == parse_errors = <<>> /\ db_errors = <<>>

\* mutant: rows_imported counts the rows attempted, not the rows inserted
FinalResult_CountsAttempts(name, rows_imported, parse_errors, db_errors) ==
    IF parse_errors # <<>> \/ db_errors # <<>>
    THEN [success |-> FALSE, file |-> name,
          reason |-> <<"Import completed with errors">>,
          rows_imported |-> rows_imported + Len(db_errors),
          parse_errors |-> StrAll(parse_errors), db_errors |-> db_errors]
    ELSE [success |-> TRUE, file |-> name, rows_imported |-> rows_imported]

\* the result import_single_file returns after step 6
FinalResult(name, rows_imported, parse_errors, db_errors) ==
    IF parse_errors # <<>> \/ db_errors # <<>>
    THEN [success |-> FALSE, file |-> name,
          reason |-> <<"Import completed with errors">>,
          rows_imported |-> rows_imported,
          parse_errors |-> StrAll(parse_errors), db_errors |-> db_errors]
    ELSE [success |-> TRUE, file |-> name, rows_imported |-> rows_imported]

\* mutant: __exit__ commits whether or not an exception is on its way
DbExit_CommitsOnError(exc, committed, txn) ==
    [ledger |-> committed \cup txn, txn |-> {}, conn |-> "closed"]

(***************************************************************************)
(* database/connection.py: DatabaseConnection.__exit__ on a connection     *)
(* with the uncommitted rows txn.  exc is None on a clean exit.            *)
(***************************************************************************)
DbExit(exc, committed, txn) ==
    IF exc = None
    THEN [ledger |-> committed \cup txn, txn |-> {}, conn |-> "closed"]
    ELSE [ledger |-> committed, txn |-> {}, conn |-> "closed"]

(***************************************************************************)
(* transactions/loader.py: import_transactions.                            *)
(***************************************************************************)
\* mutant: the except clause of the loop swallows the exception
Collect_DropsException(res, name, out) ==
    IF out.ok
    THEN IF out.val.success
         THEN [res EXCEPT !.succeeded = Append(@, out.val)]
         ELSE [res EXCEPT !.failed = Append(@, out.val)]
    ELSE res

\* the body of the for loop: out is what import_single_file returned or raised
Collect(res, name, out) ==
    IF out.ok
    THEN IF out.val.success
         THEN [res EXCEPT !.succeeded = Append(@, out.val)]
         ELSE [res EXCEPT !.failed = Append(@, out.val)]
    ELSE [res EXCEPT !.failed = Append(@, [file |-> name, reason |-> out.err])]

\* mutant: the run succeeds when some file succeeded
Summary_AnySucceeded(fs, res) ==
    [success   |-> Len(res.succeeded) > 0,
     total     |-> Len(fs),
     succeeded |-> Len(res.succeeded),
     failed    |-> Len(res.failed),
     failures  |-> IF res.failed # <<>> THEN res.failed ELSE <<>>]

\* the summary (elapsed_s, a wall-clock reading, is left out)
Summary(fs, res) ==
    [success   |-> Len(res.failed) = 0,
     total     |-> Len(fs),
     succeeded |-> Len(res.succeeded),
     failed    |-> Len(res.failed),
     failures  |-> IF res.failed # <<>> THEN res.failed ELSE <<>>]

\* error texts of the environment
ENoEnt == <<"No such file or directory">>
EAccess == <<"Permission denied">>
ECantOpen == <<"unable to open database file">>
EClosed == <<"Cannot operate on a closed database.">>
ELocked == <<"database is locked">>
EConstraint == <<"constraint failed">>

(***************************************************************************)
(* State.                                                                  *)
(***************************************************************************)
VARIABLES
    raw,            \* TRANSACTIONS_RAW_DIR
    backup_raw,     \* TRANSACTIONS_BACKUP_RAW_DIR
    imported,       \* TRANSACTIONS_IMPORTED_DIR
    ledger,         \* the committed rows of the ledger table
    txn,            \* per run: rows inserted on its connection, not committed
    conn,           \* per run: DatabaseConnection.conn, "None", "open" or "closed"
    connects,       \* <<run, file>> for which DatabaseConnection() was entered
    pc,             \* per run: position in import_transactions
    files,          \* per run: the list get_raw_transaction_files() returned
    idx,            \* per run: index in files of file_path
    results,        \* per run: results["succeeded"], results["failed"]
    summary,        \* per run: the summary returned, None before
    account_label,  \* per run, locals of import_single_file
    parsed,         \* parsed_rows, parse_errors, min_date, max_date
    new_filename,
    rows_imported,
    db_errors,
    row_idx,        \* position of the for loop over parsed_rows
    last,           \* history: <<run, step>> of the step taken last
    arg,            \* the argument of a function called on its own
    ret,            \* the values its calls returned, in order
    migrations_dir, \* DB_ROOT / "migrations": the script of each file in it
    migrations,     \* the migrations table: the filenames recorded
    executed,       \* the scripts executescript ran, whole or in part, in order
    mpc,            \* position in apply_all_pending
    pending,        \* locals of apply_all_pending
    applied

fsVars == <<raw, backup_raw, imported>>
dbVars == <<ledger, txn, conn, connects>>
runVars == <<pc, files, idx, results, summary>>
localVars == <<account_label, parsed, new_filename, rows_imported, db_errors, row_idx>>
callVars == <<arg, ret>>
migVars == <<migrations_dir, migrations, executed, mpc, pending, applied>>
vars == <<fsVars, dbVars, runVars, localVars, last, callVars, migVars>>

Runs == 1..MaxRuns

NoParse == [parsed_rows |-> <<>>, errors |-> <<>>, min_date |-> None, max_date |-> None]

file_path(r) == files[r][idx[r]]

InFile(r, at) == pc[r] = at /\ idx[r] <= Len(files[r])

\* nothing has run: the directories behind raw are empty, no run has started
Constructed ==
    /\ backup_raw = EmptyDir
    /\ imported = EmptyDir
    /\ ledger = {}
    /\ txn = [r \in Runs |-> {}]
    /\ conn = [r \in Runs |-> "None"]
    /\ connects = {}
    /\ pc = [r \in Runs |-> "idle"]
    /\ files = [r \in Runs |-> <<>>]
    /\ idx = [r \in Runs |-> 1]
    /\ results = [r \in Runs |-> [succeeded |-> <<>>, failed |-> <<>>]]
    /\ summary = [r \in Runs |-> None]
    /\ account_label = [r \in Runs |-> None]
    /\ parsed = [r \in Runs |-> NoParse]
    /\ new_filename = [r \in Runs |-> None]
    /\ rows_imported = [r \in Runs |-> 0]
    /\ db_errors = [r \in Runs |-> <<>>]
    /\ row_idx = [r \in Runs |-> 1]
    /\ last = <<0, "Init">>

\* no migration file, an empty migrations table, no call of apply_all_pending
NoMigrations ==
    /\ migrations_dir = EmptyDir
    /\ migrations = {}
    /\ executed = <<>>
    /\ mpc = "idle"
    /\ pending = <<>>
    /\ applied = <<>>

Init ==
    /\ \E S \in SUBSET Universe :
          /\ Cardinality(S) <= MaxFiles
          /\ raw = [n \in Names(S) |-> CHOOSE f \in S : f.name = n]
    /\ Constructed
    /\ NoMigrations
    /\ arg = None
    /\ ret = <<>>

\* import_single_file returns or raises out; the loop collects it and goes on
\* to the next file; the locals of the call are gone
Finish(r, out) ==
    /\ results' = [results EXCEPT ![r] = Collect(@, file_path(r), out)]
    /\ idx' = [idx EXCEPT ![r] = @ + 1]
    /\ pc' = [pc EXCEPT ![r] = "loop"]
    /\ conn' = [conn EXCEPT ![r] = "None"]
    /\ account_label' = [account_label EXCEPT ![r] = None]
    /\ parsed' = [parsed EXCEPT ![r] = NoParse]
    /\ new_filename' = [new_filename EXCEPT ![r] = None]
    /\ rows_imported' = [rows_imported EXCEPT ![r] = 0]
    /\ db_errors' = [db_errors EXCEPT ![r] = <<>>]
    /\ row_idx' = [row_idx EXCEPT ![r] = 1]
    /\ UNCHANGED <<files, summary>>

\* what is left of a call of import_transactions after its caller dropped
\* the summary
Forget(f, r, v) == [q \in Runs |-> IF q < r THEN v ELSE f[q]]

\* import_transactions up to the for loop; runs follow one another
StartRun(r) ==
    /\ last' = <<r, "StartRun">>
    /\ UNCHANGED migVars
    /\ UNCHANGED callVars
    /\ pc[r] = "idle"
    /\ \A q \in Runs : q < r => pc[q] \in {"done", "gone"}
    /\ \E q \in Orders(get_raw_transaction_files(raw)) :
          files' = [Forget(files, r, <<>>) EXCEPT ![r] = q]
    /\ idx' = [Forget(idx, r, 1) EXCEPT ![r] = 1]
    /\ results' = [Forget(results, r, [succeeded |-> <<>>, failed |-> <<>>])
                     EXCEPT ![r] = [succeeded |-> <<>>, failed |-> <<>>]]
    /\ summary' = Forget(summary, r, None)
    /\ pc' = [Forget(pc, r, "gone") EXCEPT ![r] = "loop"]
    /\ UNCHANGED <<fsVars, dbVars, localVars>>

\* 1. identify account
Identify(r) ==
    /\ last' = <<r, "Identify">>
    /\ UNCHANGED migVars
    /\ UNCHANGED callVars
    /\ InFile(r, "loop")
    /\ LET label == identify_account(OpenFile(raw, file_path(r)))
       IN  IF label = None
           THEN /\ Finish(r, Return(ResIdentFailed(file_path(r))))
                /\ UNCHANGED <<fsVars, ledger, txn, connects>>
           ELSE /\ account_label' = [account_label EXCEPT ![r] = label]
                /\ pc' = [pc EXCEPT ![r] = "parse"]
                /\ UNCHANGED <<fsVars, dbVars, files, idx, results, summary,
                               parsed, new_filename, rows_imported, db_errors, row_idx>>

\* 2. parse rows, 3. generate new filename
Parse(r) ==
    /\ last' = <<r, "Parse">>
    /\ UNCHANGED migVars
    /\ UNCHANGED callVars
    /\ InFile(r, "parse")
    /\ LET p == parse_transaction_file(OpenFile(raw, file_path(r)), <<r, file_path(r)>>)
       IN  IF NoRows(p.parsed_rows, p.errors)
           THEN /\ Finish(r, Return(ResNoRows(file_path(r))))
                /\ UNCHANGED <<fsVars, ledger, txn, connects>>
           ELSE /\ parsed' = [parsed EXCEPT ![r] = p]
                /\ new_filename' = [new_filename EXCEPT ![r] =
                       NewFilename(account_label[r], p.min_date, p.max_date,
                                   Stem(file_path(r)))]
                /\ pc' = [pc EXCEPT ![r] = "backup"]
                /\ UNCHANGED <<fsVars, dbVars, files, idx, results, summary,
                               account_label, rows_imported, db_errors, row_idx>>

\* 4. TRANSACTIONS_BACKUP_RAW_DIR.mkdir raises, outside any try
MkdirBackupRaises(r) ==
    /\ last' = <<r, "MkdirBackupRaises">>
    /\ UNCHANGED migVars
    /\ UNCHANGED callVars
    /\ InFile(r, "backup")
    /\ Finish(r, Raise(EAccess))
    /\ UNCHANGED <<fsVars, ledger, txn, connects>>

\* 4. shutil.move to backup_raw raises: the file is gone, or the move is refused
MoveToBackupFails(r) ==
    /\ last' = <<r, "MoveToBackupFails">>
    /\ UNCHANGED migVars
    /\ UNCHANGED callVars
    /\ InFile(r, "backup")
    /\ \E e \in {ENoEnt, EAccess} :
          /\ e = ENoEnt <=> file_path(r) \notin DOMAIN raw
          /\ Finish(r, Return(ResMoveFailed(file_path(r), e)))
    /\ UNCHANGED <<fsVars, ledger, txn, connects>>

\* mutant: the file is copied to backup_raw and stays in raw
MoveToBackup_CopiesOnly(r) ==
    /\ last' = <<r, "MoveToBackup">>
    /\ UNCHANGED migVars
    /\ UNCHANGED callVars
    /\ InFile(r, "backup")
    /\ file_path(r) \in DOMAIN raw
    /\ LET mv == ShutilMove(raw, file_path(r), backup_raw, new_filename[r])
       IN  /\ raw' = raw
           /\ backup_raw' = mv.dst
    /\ rows_imported' = [rows_imported EXCEPT ![r] = 0]
    /\ db_errors' = [db_errors EXCEPT ![r] = <<>>]
    /\ pc' = [pc EXCEPT ![r] = "connect"]
    /\ UNCHANGED <<imported, dbVars, files, idx, results, summary,
                   account_label, parsed, new_filename, row_idx>>

\* 4. move to backup_raw with the new name
MoveToBackup(r) ==
    /\ last' = <<r, "MoveToBackup">>
    /\ UNCHANGED migVars
    /\ UNCHANGED callVars
    /\ InFile(r, "backup")
    /\ file_path(r) \in DOMAIN raw
    /\ LET mv == ShutilMove(raw, file_path(r), backup_raw, new_filename[r])
       IN  /\ raw' = mv.src
           /\ backup_raw' = mv.dst
    /\ rows_imported' = [rows_imported EXCEPT ![r] = 0]
    /\ db_errors' = [db_errors EXCEPT ![r] = <<>>]
    /\ pc' = [pc EXCEPT ![r] = "connect"]
    /\ UNCHANGED <<imported, dbVars, files, idx, results, summary,
                   account_label, parsed, new_filename, row_idx>>

DbError(r, e) ==
    Return(ResDbError(file_path(r), e, rows_imported[r], parsed[r].errors, db_errors[r]))

\* 5. DatabaseConnection().__enter__ opens the connection
Connect(r) ==
    /\ last' = <<r, "Connect">>
    /\ UNCHANGED migVars
    /\ UNCHANGED callVars
    /\ InFile(r, "connect")
    /\ connects' = connects \cup {<<r, file_path(r)>>}
    /\ conn' = [conn EXCEPT ![r] = "open"]
    /\ pc' = [pc EXCEPT ![r] = "cursor"]
    /\ UNCHANGED <<fsVars, ledger, txn, files, idx, results, summary, localVars>>

\* 5. sqlite3.connect raises in __enter__: no __exit__, "Database error"
ConnectRaises(r) ==
    /\ last' = <<r, "ConnectRaises">>
    /\ UNCHANGED migVars
    /\ UNCHANGED callVars
    /\ InFile(r, "connect")
    /\ connects' = connects \cup {<<r, file_path(r)>>}
    /\ Finish(r, DbError(r, ECantOpen))
    /\ UNCHANGED <<fsVars, ledger, txn>>

\* 5. conn.cursor()
Cursor(r) ==
    /\ last' = <<r, "Cursor">>
    /\ UNCHANGED migVars
    /\ UNCHANGED callVars
    /\ InFile(r, "cursor")
    /\ row_idx' = [row_idx EXCEPT ![r] = 1]
    /\ pc' = [pc EXCEPT ![r] = "insert"]
    /\ UNCHANGED <<fsVars, dbVars, files, idx, results, summary,
                   account_label, parsed, new_filename, rows_imported, db_errors>>

\* 5. conn.cursor() raises: __exit__ with the exception, "Database error"
CursorRaises(r) ==
    /\ last' = <<r, "CursorRaises">>
    /\ UNCHANGED migVars
    /\ UNCHANGED callVars
    /\ InFile(r, "cursor")
    /\ LET x == DbExit(EClosed, ledger, txn[r])
       IN  /\ ledger' = x.ledger
           /\ txn' = [txn EXCEPT ![r] = x.txn]
    /\ Finish(r, DbError(r, EClosed))
    /\ UNCHANGED <<fsVars, connects>>

InLoop(r) == InFile(r, "insert") /\ row_idx[r] <= Len(parsed[r].parsed_rows)

\* 5. one row of the for loop: cursor.execute(INSERT ...) succeeds
InsertRow(r) ==
    /\ last' = <<r, "InsertRow">>
    /\ UNCHANGED migVars
    /\ UNCHANGED callVars
    /\ InLoop(r)
    /\ txn' = [txn EXCEPT ![r] = @ \cup
                 {LedgerRow(parsed[r].parsed_rows[row_idx[r]],
                            get_account_id(account_label[r]),
                            new_filename[r], file_path(r))}]
    /\ rows_imported' = [rows_imported EXCEPT ![r] = @ + 1]
    /\ row_idx' = [row_idx EXCEPT ![r] = @ + 1]
    /\ UNCHANGED <<fsVars, ledger, conn, connects, runVars,
                   account_label, parsed, new_filename, db_errors>>

\* mutant: the first failing insert ends the loop
InsertRowRaises_Aborts(r) ==
    /\ last' = <<r, "InsertRowRaises">>
    /\ UNCHANGED migVars
    /\ UNCHANGED callVars
    /\ InLoop(r)
    /\ db_errors' = [db_errors EXCEPT ![r] =
                       Append(@, DbErrorStr(parsed[r].parsed_rows[row_idx[r]], EConstraint))]
    /\ row_idx' = [row_idx EXCEPT ![r] = Len(parsed[r].parsed_rows) + 1]
    /\ UNCHANGED <<fsVars, dbVars, runVars,
                   account_label, parsed, new_filename, rows_imported>>

\* 5. one row of the for loop: cursor.execute raises, the error is collected
InsertRowRaises(r) ==
    /\ last' = <<r, "InsertRowRaises">>
    /\ UNCHANGED migVars
    /\ UNCHANGED callVars
    /\ InLoop(r)
    /\ db_errors' = [db_errors EXCEPT ![r] =
                       Append(@, DbErrorStr(parsed[r].parsed_rows[row_idx[r]], EConstraint))]
    /\ row_idx' = [row_idx EXCEPT ![r] = @ + 1]
    /\ UNCHANGED <<fsVars, dbVars, runVars,
                   account_label, parsed, new_filename, rows_imported>>

AfterLoop(r) == InFile(r, "insert") /\ row_idx[r] > Len(parsed[r].parsed_rows)

\* 5. conn.commit() after the loop, then __exit__ without exception (its own
\* commit finds no open transaction)
Commit(r) ==
    /\ last' = <<r, "Commit">>
    /\ UNCHANGED migVars
    /\ UNCHANGED callVars
    /\ AfterLoop(r)
    /\ LET x == DbExit(None, ledger \cup txn[r], {})
       IN  /\ ledger' = x.ledger
           /\ txn' = [txn EXCEPT ![r] = x.txn]
           /\ conn' = [conn EXCEPT ![r] = x.conn]
    /\ pc' = [pc EXCEPT ![r] = "finalize"]
    /\ UNCHANGED <<fsVars, connects, files, idx, results, summary, localVars>>

\* mutant: one transaction for the run, the rollback takes the rows of the
\* files before with it
CommitRaises_RollsBackRun(r) ==
    /\ last' = <<r, "CommitRaises">>
    /\ UNCHANGED migVars
    /\ UNCHANGED callVars
    /\ AfterLoop(r)
    /\ LET x == DbExit(ELocked, ledger, txn[r])
       IN  /\ ledger' = {row \in x.ledger :
                             \A k \in 1..(idx[r] - 1) : row.origin # files[r][k]}
           /\ txn' = [txn EXCEPT ![r] = x.txn]
    /\ Finish(r, DbError(r, ELocked))
    /\ UNCHANGED <<fsVars, connects>>

\* 5. conn.commit() raises: __exit__ with the exception, "Database error"
CommitRaises(r) ==
    /\ last' = <<r, "CommitRaises">>
    /\ UNCHANGED migVars
    /\ UNCHANGED callVars
    /\ AfterLoop(r)
    /\ LET x == DbExit(ELocked, ledger, txn[r])
       IN  /\ ledger' = x.ledger
           /\ txn' = [txn EXCEPT ![r] = x.txn]
    /\ Finish(r, DbError(r, ELocked))
    /\ UNCHANGED <<fsVars, connects>>

Final(r) ==
    Return(FinalResult(file_path(r), rows_imported[r], parsed[r].errors, db_errors[r]))

\* mutant: the move to imported does not wait for the commit
ToImported_BeforeCommit(r) ==
    /\ InFile(r, "finalize") \/ AfterLoop(r)
    /\ CleanImport(parsed[r].errors, db_errors[r])

\* 6. the branch of the clean import
ToImported(r) ==
    /\ InFile(r, "finalize")
    /\ CleanImport(parsed[r].errors, db_errors[r])

\* 6. TRANSACTIONS_IMPORTED_DIR.mkdir raises, outside the try
MkdirImportedRaises(r) ==
    /\ last' = <<r, "MkdirImportedRaises">>
    /\ UNCHANGED migVars
    /\ UNCHANGED callVars
    /\ ToImported(r)
    /\ Finish(r, Raise(EAccess))
    /\ UNCHANGED <<fsVars, ledger, txn, connects>>

\* 6. move to imported
MoveToImported(r) ==
    /\ last' = <<r, "MoveToImported">>
    /\ UNCHANGED migVars
    /\ UNCHANGED callVars
    /\ ToImported(r)
    /\ new_filename[r] \in DOMAIN backup_raw
    /\ LET mv == ShutilMove(backup_raw, new_filename[r], imported, new_filename[r])
       IN  /\ backup_raw' = mv.src
           /\ imported' = mv.dst
    /\ Finish(r, Final(r))
    /\ UNCHANGED <<raw, ledger, txn, connects>>

\* 6. shutil.move to imported raises: logged, not fatal
MoveToImportedFails(r) ==
    /\ last' = <<r, "MoveToImportedFails">>
    /\ UNCHANGED migVars
    /\ UNCHANGED callVars
    /\ ToImported(r)
    /\ Finish(r, Final(r))
    /\ UNCHANGED <<fsVars, ledger, txn, connects>>

\* 6. parse errors or db errors: no move, the result is returned
ReturnWithErrors(r) ==
    /\ last' = <<r, "ReturnWithErrors">>
    /\ UNCHANGED migVars
    /\ UNCHANGED callVars
    /\ InFile(r, "finalize")
    /\ ~CleanImport(parsed[r].errors, db_errors[r])
    /\ Finish(r, Final(r))
    /\ UNCHANGED <<fsVars, ledger, txn, connects>>

\* import_transactions after the for loop
Summarise(r) ==
    /\ last' = <<r, "Summarise">>
    /\ UNCHANGED migVars
    /\ UNCHANGED callVars
    /\ pc[r] = "loop"
    /\ idx[r] > Len(files[r])
    /\ summary' = [summary EXCEPT ![r] = Summary(files[r], results[r])]
    /\ pc' = [pc EXCEPT ![r] = "done"]
    /\ UNCHANGED <<fsVars, dbVars, files, idx, results, localVars>>

Next ==
    \E r \in Runs :
        \/ StartRun(r)
        \/ Identify(r)
        \/ Parse(r)
        \/ MkdirBackupRaises(r)
        \/ MoveToBackupFails(r)
        \/ MoveToBackup(r)
        \/ Connect(r)
        \/ ConnectRaises(r)
        \/ Cursor(r)
        \/ CursorRaises(r)
        \/ InsertRow(r)
        \/ InsertRowRaises(r)
        \/ Commit(r)
        \/ CommitRaises(r)
        \/ MkdirImportedRaises(r)
        \/ MoveToImported(r)
        \/ MoveToImportedFails(r)
        \/ ReturnWithErrors(r)
        \/ Summarise(r)

Spec == Init /\ [][Next]_vars

(***************************************************************************)
(* Vocabulary of the properties.                                           *)
(***************************************************************************)
\* the file the producer left in raw under this name
FileOf(name) == CHOOSE f \in Universe : f.name = name

\* the names of the files a directory holds, by the name they had in raw
Origins(dir) == {dir[n].name : n \in DOMAIN dir}

\* the file import_single_file last returned or raised for, and the entry
\* the loop appended for it
Just(r, step) == last = <<r, step>>

done_path(r) == files[r][idx[r] - 1]

LastFailed(r) == results[r].failed[Len(results[r].failed)]

LastSucceeded(r) == results[r].succeeded[Len(results[r].succeeded)]

\* rows of a file in the ledger, committed or not
RowsOf(rows, name) == {row \in rows : row.origin = name}

Pending == UNION {txn[r] : r \in Runs}

\* identify_account and parse_transaction_file on the files of Universe
LabelOf == [f \in Universe |-> identify_account(f)]

ParsedOf == [f \in Universe |-> parse_transaction_file(f, 0)]

CanonicalNames ==
    [f \in Universe |->
        NewFilename(LabelOf[f], ParsedOf[f].min_date, ParsedOf[f].max_date, Stem(f.name))]

\* the name a file is claimed under
CanonicalOf(file) == CanonicalNames[file]

\* the entries of a result list for a file
EntriesFor(list, name) == {i \in 1..Len(list) : list[i].file = name}

\* the files of run r that import_single_file is through with
Processed(r) == {files[r][k] : k \in 1..(idx[r] - 1)}

InRaw(name) == name \in DOMAIN raw

InBackup(name) ==
    \E n \in DOMAIN backup_raw :
        backup_raw[n].name = name /\ n = CanonicalOf(backup_raw[n])

InImported(name) == name \in Origins(imported)

ExactlyOne(a, b, c) == (a /\ ~b /\ ~c) \/ (~a /\ b /\ ~c) \/ (~a /\ ~b /\ c)

\* C1: every file a run discovered is at exactly one of raw, backup_raw
\* (under its canonical name) or imported; no relocation overwrites or removes
\* another file, also not one of the same account and date range.
C1_NoClaimedFileLost ==
    \A r \in Runs : \A k \in 1..Len(files[r]) :
        ExactlyOne(InRaw(files[r][k]), InBackup(files[r][k]), InImported(files[r][k]))

C2_Entry(name) ==
    [success |-> FALSE, file |-> name,
     reason |-> <<"Account identification failed">>, rows_imported |-> 0]

C2_Skipped(r, name) ==
    /\ EntriesFor(results[r].succeeded, name) = {}
    /\ Cardinality(EntriesFor(results[r].failed, name)) = 1
    /\ \A i \in EntriesFor(results[r].failed, name) :
          results[r].failed[i] = C2_Entry(name)
    /\ name \in DOMAIN raw
    /\ raw[name] = FileOf(name)
    /\ name \notin Origins(backup_raw) \cup Origins(imported)
    /\ \A q \in Runs : <<q, name>> \notin connects
    /\ RowsOf(ledger \cup Pending, name) = {}

\* C2: a file identify_account returns None for gets the result success=False,
\* "Account identification failed", rows_imported=0; it stays in raw under its
\* name, no connection is opened for it and no ledger row is inserted.
C2_UnidentifiedSkipped ==
    \A r \in Runs : \A name \in Processed(r) :
        LabelOf[FileOf(name)] = None => C2_Skipped(r, name)

\* one identifiable file imported and one unidentifiable file skipped:
\* total 2, succeeded 1, failed 1
C2_Witness ==
    \E r \in Runs :
        /\ pc[r] = "done"
        /\ summary[r].total = 2
        /\ summary[r].succeeded = 1
        /\ summary[r].failed = 1
        /\ LabelOf[FileOf(summary[r].failures[1].file)] = None
        /\ summary[r].failures[1].file \in DOMAIN raw

C3_Succeeded(r, name, n) ==
    /\ EntriesFor(results[r].failed, name) = {}
    /\ \E i \in EntriesFor(results[r].succeeded, name) :
          results[r].succeeded[i] = [success |-> TRUE, file |-> name, rows_imported |-> n]

C3_Clean(n, f, p) ==
    /\ LabelOf[f] # None
    /\ n = CanonicalOf(f)
    /\ p.errors = <<>>
    /\ Cardinality(RowsOf(ledger, f.name)) = Len(p.parsed_rows)
    /\ RowsOf(Pending, f.name) = {}
    /\ f.name \notin DOMAIN raw
    /\ \A r \in Runs :
          f.name \in Processed(r) => C3_Succeeded(r, f.name, Len(p.parsed_rows))

\* C3: a file is in imported only if its import was fully clean: classified,
\* taken out of raw, no parse error, every row inserted and committed, and the
\* result of the run that imported it is success=True.
C3_ImportedOnlyClean ==
    \A n \in DOMAIN imported :
        C3_Clean(n, imported[n], ParsedOf[imported[n]])

\* a two-row file is in imported
C3_Witness ==
    \E n \in DOMAIN imported :
        /\ Len(imported[n].rows) = 2
        /\ Cardinality(RowsOf(ledger, imported[n].name)) = 2

\* the strings import_single_file makes of the parse errors of its result
C4_Strs(errors) ==
    [i \in 1..Len(errors) |-> <<"Row ", errors[i].row_num, ": ", errors[i].message>>]

C4_Entry(r) ==
    [success |-> FALSE, file |-> file_path(r),
     reason |-> <<"Import completed with errors">>,
     rows_imported |-> Cardinality(RowsOf(ledger', file_path(r))),
     parse_errors |-> C4_Strs(parsed[r].errors),
     db_errors |-> db_errors[r]]

\* the step that ends a file whose persistence completed with errors
C4_Step(r) ==
    (/\ pc[r] = "finalize"
     /\ pc'[r] # "finalize"
     /\ parsed[r].errors # <<>> \/ db_errors[r] # <<>>)
    => /\ results'[r].succeeded = results[r].succeeded
       /\ results'[r].failed = Append(results[r].failed, C4_Entry(r))
       /\ ledger' = ledger
       /\ new_filename[r] = CanonicalOf(FileOf(file_path(r)))
       /\ new_filename[r] \in DOMAIN backup_raw'
       /\ backup_raw'[new_filename[r]] = FileOf(file_path(r))
       /\ file_path(r) \notin Origins(imported') \cup DOMAIN raw'

C4_Stays ==
    \A r \in Runs : \A i \in 1..Len(results[r].failed) :
        results[r].failed[i].reason = <<"Import completed with errors">>
        => /\ results[r].failed[i].file \notin Origins(imported)
           /\ Cardinality(RowsOf(ledger, results[r].failed[i].file))
                  = results[r].failed[i].rows_imported

\* C4: persistence completed with a parse error or a row-insert error: the
\* result is success=False, "Import completed with errors", rows_imported the
\* number of rows inserted, with both error lists; the file is in backup_raw
\* under its canonical name and is not moved to imported; the inserted rows
\* stay committed.
C4_CompletedWithErrors == []C4_Stays /\ [][\A r \in Runs : C4_Step(r)]_vars

\* a file with one parse error and one inserted row was returned
C4_Witness ==
    \E r \in Runs :
        /\ Just(r, "ReturnWithErrors")
        /\ LastFailed(r).rows_imported = 1
        /\ Len(LastFailed(r).parse_errors) = 1
        /\ Cardinality(RowsOf(ledger, done_path(r))) = 1
        /\ InBackup(done_path(r))

C5_Failed(r, name, e) ==
    /\ e.success = FALSE
    /\ e.file = name
    /\ Len(e.reason) = 2
    /\ e.reason[1] = "Failed to move to backup: "
    /\ e.rows_imported = 0
    /\ EntriesFor(results[r].succeeded, name) = {}
    /\ name \in DOMAIN raw
    /\ raw[name] = FileOf(name)
    /\ name \notin Origins(backup_raw) \cup Origins(imported)
    /\ \A q \in Runs : <<q, name>> \notin connects
    /\ RowsOf(ledger \cup Pending, name) = {}

\* C5: when the move from raw to backup_raw fails, the result is
\* success=False, "Failed to move to backup...", rows_imported=0; the file is
\* still in raw, no connection is opened and no ledger row is inserted for it.
C5_MoveToBackupFailed ==
    \A r \in Runs :
        Just(r, "MoveToBackupFails") => C5_Failed(r, done_path(r), LastFailed(r))

\* the move of a parsed, classified file failed
C5_Witness ==
    \E r \in Runs :
        /\ Just(r, "MoveToBackupFails")
        /\ ParsedOf[FileOf(done_path(r))].parsed_rows # <<>>

C6_Entries(r, id) == {j \in 1..Len(db_errors[r]) : db_errors[r][j][2] = id}

C6_Inserted(r, id) == \E row \in txn[r] \cup ledger : row.id = id

\* row i was attempted: it is inserted, or it has exactly one db_errors entry
C6_Attempted(r, id) ==
    \/ C6_Inserted(r, id) /\ C6_Entries(r, id) = {}
    \/ ~C6_Inserted(r, id) /\ Cardinality(C6_Entries(r, id)) = 1

C6_Loop(r) ==
    /\ pc[r] = "insert" =>
          /\ rows_imported[r] + Len(db_errors[r]) = row_idx[r] - 1
          /\ \A i \in 1..(row_idx[r] - 1) : C6_Attempted(r, parsed[r].parsed_rows[i].id)
    /\ pc[r] = "finalize" =>
          /\ rows_imported[r] + Len(db_errors[r]) = Len(parsed[r].parsed_rows)
          /\ \A i \in 1..Len(parsed[r].parsed_rows) :
                C6_Attempted(r, parsed[r].parsed_rows[i].id)
    /\ Just(r, "InsertRowRaises") =>
          /\ pc[r] = "insert"
          /\ C6_Entries(r, parsed[r].parsed_rows[row_idx[r] - 1].id) = {Len(db_errors[r])}

\* C6: a row whose insert raises gets exactly one db_errors entry and the
\* rows after it are still attempted; when the loop is over,
\* rows_imported + len(db_errors) = len(parsed_rows).
C6_RowErrorsCollected == \A r \in Runs : C6_Loop(r)

\* the first row's insert raised and the second row was inserted
C6_Witness ==
    \E r \in Runs :
        /\ pc[r] = "finalize"
        /\ Len(parsed[r].parsed_rows) = 2
        /\ C6_Entries(r, parsed[r].parsed_rows[1].id) = {1}
        /\ C6_Inserted(r, parsed[r].parsed_rows[2].id)

C7_Steps == {"ConnectRaises", "CursorRaises", "CommitRaises"}

C7_Step(r) ==
    (pc[r] \in {"connect", "cursor", "insert"} /\ \E st \in C7_Steps : last' = <<r, st>>)
    => /\ results'[r].succeeded = results[r].succeeded
       /\ Len(results'[r].failed) = Len(results[r].failed) + 1
       /\ results'[r].failed[Len(results'[r].failed)].success = FALSE
       /\ results'[r].failed[Len(results'[r].failed)].file = file_path(r)
       /\ Len(results'[r].failed[Len(results'[r].failed)].reason) = 2
       /\ results'[r].failed[Len(results'[r].failed)].reason[1] = "Database error: "
       /\ results'[r].failed[Len(results'[r].failed)].rows_imported = Cardinality(txn[r])
       /\ txn'[r] = {}
       /\ RowsOf(ledger', file_path(r)) = {}
       /\ ledger' = ledger
       /\ new_filename[r] \in DOMAIN backup_raw'
       /\ backup_raw'[new_filename[r]] = FileOf(file_path(r))

C7_NoRows ==
    \A r \in Runs : \A i \in 1..Len(results[r].failed) :
        results[r].failed[i].reason[1] = "Database error: "
        => RowsOf(ledger, results[r].failed[i].file) = {}

\* C7: a failure of the connection, the cursor or the commit gives
\* success=False, "Database error...", rows_imported the inserts executed so
\* far; none of the file's rows is in the ledger, and the file is in backup_raw.
C7_DatabaseError == []C7_NoRows /\ [][\A r \in Runs : C7_Step(r)]_vars

\* the commit failed after two inserts
C7_Witness ==
    \E r \in Runs :
        /\ Just(r, "CommitRaises")
        /\ LastFailed(r).rows_imported = 2
        /\ RowsOf(ledger, done_path(r)) = {}
        /\ InBackup(done_path(r))

C8_Succeeded(r, name) ==
    /\ EntriesFor(results[r].failed, name) = {}
    /\ results[r].succeeded # <<>>
    /\ LastSucceeded(r) = [success |-> TRUE, file |-> name,
                           rows_imported |-> Cardinality(RowsOf(ledger, name))]
    /\ InBackup(name)

\* C8: after a clean import, a failure while relocating the file to imported,
\* the creation of the imported directory included, leaves the result
\* success=True: the file stays in backup_raw and counts as succeeded.
C8_BestEffortRelocation ==
    \A r \in Runs :
        (Just(r, "MoveToImportedFails") \/ Just(r, "MkdirImportedRaises"))
        => C8_Succeeded(r, done_path(r))

C9_OneEntry(r, name) ==
    Cardinality(EntriesFor(results[r].succeeded, name))
      + Cardinality(EntriesFor(results[r].failed, name)) = 1

C9_Caught(r, name) ==
    /\ pc[r] = "loop"
    /\ results[r].failed # <<>>
    /\ LastFailed(r) = [file |-> name, reason |-> <<"Permission denied">>]
    /\ C9_OneEntry(r, name)

\* C9: an exception out of import_single_file becomes one failure entry with
\* the file name and the error text; the remaining files are still processed
\* and the run reaches its summary.
C9_Bulkhead ==
    \A r \in Runs :
        /\ (Just(r, "MkdirBackupRaises") \/ Just(r, "MkdirImportedRaises"))
              => C9_Caught(r, done_path(r))
        /\ pc[r] = "done" => \A k \in 1..Len(files[r]) : C9_OneEntry(r, files[r][k])

\* the first of two files raised, the second was imported
C9_Witness ==
    \E r \in Runs :
        /\ pc[r] = "done"
        /\ Len(files[r]) = 2
        /\ Len(results[r].failed) = 1
        /\ results[r].failed[1] = [file |-> files[r][1], reason |-> <<"Permission denied">>]
        /\ Len(results[r].succeeded) = 1
        /\ results[r].succeeded[1].file = files[r][2]

C10_Summary(r) ==
    pc[r] = "done" =>
        /\ summary[r].total = Len(files[r])
        /\ summary[r].total = summary[r].succeeded + summary[r].failed
        /\ summary[r].success <=> summary[r].failed = 0
        /\ Len(summary[r].failures) = summary[r].failed
        /\ files[r] = <<>> =>
              /\ summary[r].success
              /\ summary[r].total = 0
              /\ summary[r].succeeded = 0
              /\ summary[r].failed = 0

\* the steps of a run that discovered no file
C10_EmptyStep(r) ==
    (files'[r] = <<>> /\ pc[r] \in {"idle", "loop"} /\ pc'[r] \in {"loop", "done"})
    => UNCHANGED <<fsVars, ledger>>

\* C10: total = len(files) = succeeded + failed, success iff failed = 0,
\* len(failures) = failed; a run over an empty raw directory returns
\* success=True with zero counts and changes no file and no ledger row.
C10_SummaryCounts ==
    [](\A r \in Runs : C10_Summary(r)) /\ [][\A r \in Runs : C10_EmptyStep(r)]_vars

\* a run found raw empty after an earlier run had imported rows
C10_Witness ==
    \E r \in Runs :
        /\ pc[r] = "done"
        /\ summary[r].total = 0
        /\ summary[r].success
        /\ ledger # {}

(***************************************************************************)
(* The shape of the per-file results.                                      *)
(***************************************************************************)
C11_ResultKeys == {"success", "file", "reason", "rows_imported"}

C11_FailedResult(e) ==
    /\ C11_ResultKeys \subseteq DOMAIN e
    /\ e.success = FALSE
    /\ e.reason # <<>>
    /\ e.rows_imported \in Nat

\* C11: every element of the failures list of a summary is a failed per-file
\* result: success = False, the file name, a reason and an integer
\* rows_imported, also when the failure comes from an unexpected exception.
C11_FailuresAreResults ==
    \A r \in Runs :
        pc[r] = "done" =>
            \A i \in 1..Len(summary[r].failures) :
                /\ C11_FailedResult(summary[r].failures[i])
                /\ summary[r].failures[i].file \in SeqRange(files[r])

(***************************************************************************)
(* identify_account called on its own, on files made of a few names, a few *)
(* rows and the ways the three opens of the file may fail.                 *)
(***************************************************************************)
\* number of rows of a file handed to a function on its own
MaxRows == 2

SeqsUpTo(S, n) == UNION {[1..k -> S] : k \in 0..n}

Card4128 == <<"4", "5", "0", "0", "*", "*", "*", "*", "*", "*", "*", "*", "4", "1", "2", "8">>
DateSlash == <<"2", "0", "2", "5", "/", "0", "1", "/", "0", "2">>

RowCard4128 == <<Date1, <<"S", "h", "o", "p">>, <<"1", "0", ".", "5", "0">>, <<>>, Card4128>>
RowRentCredit == <<Date2, <<"e", "-", "T", "r", "a", "n", "s", "f", "e", "r", " ", "S", "U", "Z", "A", "N", "N", "E">>, <<>>, <<"1", "2", "0", "0">>>>
RowRentThree == <<Date2, <<"S", "u", "z", "a", "n", "n", "e">>, <<"1", "2", "5", "0", ".", "0", "0">>>>
RowRentSmall == <<Date2, <<"S", "u", "z", "a", "n", "n", "e">>, <<"5", "0", ".", "0", "0">>, <<>>>>
RowRentBadAmount == <<Date2, <<"S", "u", "z", "a", "n", "n", "e">>, <<"a", "b", "c">>, <<"1", "2", "4", "1", ".", "1", "5">>>>
RowRentLate == <<Date1, <<"S", "u", "z", "a", "n", "n", "e">>, <<"1", "2", "4", "1", ".", "1", "5">>, <<>>>>
RowRentNoDay == <<DateSlash, <<"S", "u", "z", "a", "n", "n", "e">>, <<"1", "2", "4", "1", ".", "1", "5">>, <<>>>>
RowSocan == <<Date1, <<"S", "O", "C", "A", "N">>, <<>>, <<"7", "5", ".", "0", "0">>>>
RowShort == <<Date1>>

IdentifyRows ==
    {RowShop, RowCard4128, RowRent, RowRentCredit, RowRentThree, RowRentSmall,
     RowRentBadAmount, RowRentLate, RowRentNoDay, RowSocan, RowUnknown, RowShort}

IdentifyNames ==
    {<<"a">> \o Csv,
     <<"V", "i", "s", "a", "-", "P", "e", "r", "s", "o", "n", "a", "l">> \o Csv,
     <<"b", "u", "s", "i", "n", "e", "s", "s", "-", "v", "i", "s", "a">> \o Csv,
     <<"c", "h", "e", "q", "u", "i", "n", "g", "-", "p", "e", "r", "s", "o", "n", "a", "l">> \o Csv,
     <<"s", "a", "v", "i", "n", "g", "s", "-", "b", "u", "s", "i", "n", "e", "s", "s">> \o Csv,
     <<"p", "e", "r", "s", "o", "n", "a", "l", "-", "c", "h", "e", "q", "u", "i", "n", "g", "-", "v", "i", "s", "a">> \o Csv}

\* how the opens of the card check, the rent check and the SOCAN check fail
IdentifyFails ==
    {<<0, 0, 0>>, <<1, 1, 1>>, <<2, 2, 2>>, <<1, 0, 0>>, <<0, 1, 0>>, <<0, 2, 0>>, <<0, 0, 1>>}

\* the rows of a file of that name: every row for the name that says nothing,
\* one row per label the content can give for the names that say one
IdentifyRowsOf(name) ==
    IF name = <<"a">> \o Csv THEN IdentifyRows
    ELSE {RowShop, RowCard4128, RowRent, RowSocan}

IdentifyArg(name, rows, fails) == [name |-> name, rows |-> rows, fails |-> fails]

InitIdentify ==
    /\ raw = EmptyDir
    /\ Constructed
    /\ NoMigrations
    /\ \E name \in IdentifyNames : \E rows \in SeqsUpTo(IdentifyRowsOf(name), MaxRows) :
          \E fails \in IdentifyFails :
             /\ \A i \in 1..3 : fails[i] <= Len(rows) + 1
             /\ arg = IdentifyArg(name, rows, fails)
    /\ ret = <<>>

\* identify_account(file_path), called a first and a second time
CallIdentifyAccount ==
    /\ Len(ret) < 2
    /\ ret' = Append(ret, IdentifyOpens(arg.name, arg.rows, arg.fails))
    /\ last' = <<0, "identify_account">>
    /\ UNCHANGED migVars
    /\ UNCHANGED <<fsVars, dbVars, runVars, localVars, arg>>

NextIdentify == CallIdentifyAccount

SpecIdentify == InitIdentify /\ [][NextIdentify]_vars

C12_VisaName(n, label) ==
    IF Contains(n, PersonalVisa) \/ Contains(n, VisaPersonalTok)
    THEN label = PersonalVisa
    ELSE (Contains(n, BusinessVisa) \/ Contains(n, VisaBusinessTok)) => label = BusinessVisa

C12_BankName(n, label) ==
    IF Contains(n, PersonalChequing) \/ Contains(n, ChequingPersonalTok)
    THEN label = PersonalChequing
    ELSE (Contains(n, BusinessSavings) \/ Contains(n, SavingsBusinessTok))
             => label = BusinessSavings

C12_Decided(n, label) ==
    /\ C12_VisaName(n, label)
    /\ ~Contains(n, VisaTok) => C12_BankName(n, label)

\* C12: a token in the lowercased file name decides the label, whatever the
\* content says and whether or not the file can be read: personal-visa or
\* visa-personal, else business-visa or visa-business, else (in a name without
\* "visa") a chequing token, else a savings token.
C12_FilenameDecides ==
    \A i \in 1..Len(ret) : C12_Decided(Lower(arg.name), ret[i])

\* a file named for business savings whose only row is a rent payment
C12_Witness ==
    /\ Contains(Lower(arg.name), SavingsBusinessTok)
    /\ arg.rows = <<RowRent>>
    /\ arg.fails = <<0, 0, 0>>
    /\ ret = <<BusinessSavings>>

C13_NoName == FilenameLabel(Lower(arg.name)) = None

\* the card check raised before it had a first row
C13_CardRaised == arg.fails[1] = 1

\* the card check read a first row and found no card suffix in it
C13_CardSilent ==
    /\ arg.fails[1] # 1
    /\ arg.rows # <<>>
    /\ CardLabel(arg.rows[1]) = None

\* the rent check raised before it had seen a rent row
C13_RentRaised ==
    /\ arg.fails[2] # 0
    /\ \A i \in 1..(arg.fails[2] - 1) : ~RentRow(arg.rows[i])

C13_NextHeuristic(label) ==
    /\ (C13_NoName /\ C13_CardRaised /\ arg.fails[2] = 0
          /\ \E i \in 1..Len(arg.rows) : RentRow(arg.rows[i]))
       => label = PersonalChequing
    /\ (C13_NoName /\ (C13_CardRaised \/ C13_CardSilent) /\ C13_RentRaised
          /\ arg.fails[3] = 0)
       => label = SocanLabel(arg.rows)
    /\ (C13_NoName /\ arg.fails = <<1, 1, 1>>) => label = None

C13_SameFile(f) == [name |-> arg.name, rows |-> arg.rows, readFail |-> f]

C14_Mentions(tok) ==
    \E i \in 1..Len(arg.rows) :
        Len(arg.rows[i]) >= 2 /\ Contains(Lower(arg.rows[i][2]), tok)

\* no earlier heuristic classifies the file
C14_Unclassified ==
    /\ C13_NoName
    /\ arg.rows # <<>> => CardLabel(arg.rows[1]) = None
    /\ \A i \in 1..Len(arg.rows) : ~RentRow(arg.rows[i])

C14_Vetoed(label) ==
    /\ (arg.fails = <<0, 0, 0>> /\ C14_Unclassified) =>
          IF C14_Mentions(SocanTok) /\ ~C14_Mentions(SuzanneTok)
          THEN label = BusinessSavings
          ELSE label = None
    /\ (C13_NoName /\ label = BusinessSavings) =>
          C14_Mentions(SocanTok) /\ ~C14_Mentions(SuzanneTok)

\* C14: a file no earlier heuristic classifies is business-savings exactly
\* when the description of some row contains "socan" and the description of
\* no row contains "suzanne"; with "suzanne" on any row the result is None.
C14_SocanVeto == \A i \in 1..Len(ret) : C14_Vetoed(ret[i])

\* "socan" on the first row, "suzanne" on the second: not business-savings
C14_Witness ==
    /\ C13_NoName
    /\ arg.rows = <<RowSocan, RowRentSmall>>
    /\ arg.fails = <<0, 0, 0>>
    /\ ret = <<None>>

\* the amount of the rent check: the debit field, the credit field when the
\* debit field is empty
C15_AmountField(row) ==
    IF Strip(row[3]) # <<>> THEN Strip(row[3])
    ELSE IF Len(row) > 3 THEN Strip(row[4]) ELSE <<>>

C15_InBand(s) == s # <<>> /\ FloatOk(s) /\ 120000 <= FloatVal(s) /\ FloatVal(s) <= 125000

C15_DayOk(parts) == Len(parts) >= 3 /\ IntOk(parts[3]) /\ IntVal(parts[3]) \in 1..3

C15_Qualifies(row) ==
    /\ Len(row) >= 3
    /\ Contains(Lower(row[2]), SuzanneTok)
    /\ C15_InBand(C15_AmountField(row))
    /\ C15_DayOk(Split(Strip(row[1]), "-"))

C15_NoCard == arg.rows # <<>> /\ CardLabel(arg.rows[1]) = None

\* C15: a file not classified by its name or a card suffix is
\* personal-chequing if and only if some row has "suzanne" in its description,
\* an amount (debit, or credit when debit is empty) in 1200..1250 and a day of
\* the month in 1..3; rows that do not qualify are passed over.
C15_RentSignature ==
    \A i \in 1..Len(ret) :
        (C13_NoName /\ C15_NoCard /\ arg.fails = <<0, 0, 0>>) =>
            (ret[i] = PersonalChequing <=> \E k \in 1..Len(arg.rows) : C15_Qualifies(arg.rows[k]))

\* a payee row of 50.00 does not qualify, the row after it does
C15_Witness ==
    /\ C13_NoName
    /\ arg.rows = <<RowRentSmall, RowRent>>
    /\ arg.fails = <<0, 0, 0>>
    /\ ret = <<PersonalChequing>>

(***************************************************************************)
(* parse_row called on its own, on rows made of a few values per field.    *)
(***************************************************************************)
RowDates ==
    {<<>>, <<" ", " ">>, <<"2", "0", "2", "5", "-", "0", "1", "-", "1", "5">>, <<" ", "2", "0", "2", "5", "-", "0", "1", "-", "1", "5", " ">>, <<"2", "0", "2", "5", "-", "1", "-", "5">>, <<"2", "0", "2", "5", "-", "0", "2", "-", "3", "0">>, <<"1", "5", "/", "0", "1", "/", "2", "0", "2", "5">>}

RowDescriptions == {<<>>, <<" ">>, <<"S", "h", "o", "p">>, <<" ", "S", "h", "o", "p", " ">>}

RowDebits == {<<>>, <<"1", "0", ".", "5", "0">>, <<" ", "7", " ">>, <<"-", "5">>, <<"a", "b", "c">>}

RowCredits == {<<>>, <<"5">>, <<"x">>}

\* rows of four fields, the same rows with a card number, and their prefixes
FourFields ==
    {<<date, description, debit, credit>> :
        date \in RowDates, description \in RowDescriptions,
        debit \in RowDebits, credit \in RowCredits}

ParseRowRows ==
    FourFields
      \cup {row \o <<Card9256>> : row \in FourFields}
      \cup {SubSeq(RowShop, 1, n) : n \in 0..3}

InitParseRow ==
    /\ raw = EmptyDir
    /\ Constructed
    /\ NoMigrations
    /\ \E row \in ParseRowRows : \E row_num \in 1..2 :
          arg = [row |-> row, row_num |-> row_num]
    /\ ret = <<>>

\* parse_row(row, row_num); uuid4() returns a value of its own per call
CallParseRow ==
    /\ ret = <<>>
    /\ ret' = <<parse_row(arg.row, arg.row_num, <<0, arg.row_num>>)>>
    /\ last' = <<0, "parse_row">>
    /\ UNCHANGED migVars
    /\ UNCHANGED <<fsVars, dbVars, runVars, localVars, arg>>

NextParseRow == CallParseRow

SpecParseRow == InitParseRow /\ [][NextParseRow]_vars

\* a date written YYYY-MM-DD exactly, that exists in the calendar
IsoCalendar(y, m, d) == y >= 1 /\ m \in 1..12 /\ d >= 1 /\ d <= DaysInMonth(y, m)

IsoDate(s) ==
    /\ Len(s) = 10
    /\ s[5] = "-" /\ s[8] = "-"
    /\ \A k \in {1, 2, 3, 4, 6, 7, 9, 10} : IsDigit(s[k])
    /\ IsoCalendar(DigitsVal(SubSeq(s, 1, 4)), DigitsVal(SubSeq(s, 6, 7)),
                   DigitsVal(SubSeq(s, 9, 10)))

\* the field of a row that parse_row takes the amount from
C16_AmountField(row) == IF Strip(row[3]) # <<>> THEN Strip(row[3]) ELSE Strip(row[4])

\* the first rule a row violates, as the start of the message of its error;
\* None for a row that violates no rule
C16_FirstViolated(row) ==
    IF Len(row) < 4 THEN <<"Row has ">>
    ELSE IF Strip(row[1]) = <<>> THEN <<"Missing transaction date">>
    ELSE IF ~IsoDate(Strip(row[1])) THEN <<"Invalid date format: ">>
    ELSE IF Strip(row[2]) = <<>> THEN <<"Missing description">>
    ELSE IF C16_AmountField(row) = <<>> THEN <<"Missing both debit and credit amounts">>
    ELSE IF ~FloatOk(C16_AmountField(row)) THEN <<"Invalid amount: debit=">>
    ELSE None

C16_Fails(out, rule) ==
    IF rule = None THEN out.ok
    ELSE /\ ~out.ok
         /\ out.err.row_num = arg.row_num
         /\ out.err.row_data = arg.row
         /\ out.err.message[1] = rule[1]

\* C16: parse_row fails with one ParseError that names the first rule the row
\* violates, in the order: fewer than 4 fields, missing date, invalid date
\* format (a date that is not YYYY-MM-DD exactly), missing description,
\* missing both amounts or invalid amount; it produces no record then.
C16_FirstRuleWins ==
    \A i \in 1..Len(ret) : C16_Fails(ret[i], C16_FirstViolated(arg.row))

C17_Valid(row) ==
    /\ Len(row) >= 4
    /\ IsoDate(Strip(row[1]))
    /\ Strip(row[2]) # <<>>
    /\ C16_AmountField(row) # <<>>
    /\ FloatOk(C16_AmountField(row))

C17_Amount(debit_str, credit_str) ==
    IF debit_str # <<>> THEN 0 - FloatVal(debit_str) ELSE FloatVal(credit_str)

C17_Record(out, row) ==
    /\ out.ok
    /\ out.val.currency = "CAD"
    /\ out.val.transaction_time = None
    /\ out.val.transaction_date = Strip(row[1])
    /\ out.val.description = Strip(row[2])
    /\ out.val.amount = C17_Amount(Strip(row[3]), Strip(row[4]))

\* C17: a row with at least 4 fields, a valid YYYY-MM-DD date, a description
\* and a numeric amount parses to a record with currency "CAD", no
\* transaction_time, the trimmed date, and amount = -(debit) when the debit
\* field is not empty, +(credit) otherwise.
C17_ValidRowParses ==
    \A i \in 1..Len(ret) : C17_Valid(arg.row) => C17_Record(ret[i], arg.row)

\* debit 10.50 and credit 5: the amount is -10.50
C17_Witness ==
    /\ Len(arg.row) >= 4
    /\ Strip(arg.row[3]) = <<"1", "0", ".", "5", "0">>
    /\ Strip(arg.row[4]) = <<"5">>
    /\ Len(ret) = 1
    /\ ret[1].ok
    /\ ret[1].val.amount = 0 - 1050

(***************************************************************************)
(* parse_transaction_file called on its own, on files of a few lines, each *)
(* of them read to the end or failing at one of its lines.                 *)
(***************************************************************************)
MaxLines == 3

RowBlank == <<<<" ">>, <<>>, <<"\t">>>>
RowUnpadded == <<<<"2", "0", "2", "5", "-", "1", "-", "5">>, <<"S", "h", "o", "p">>, <<"7">>, <<>>>>

ParseFileRows == {<<>>, RowBlank, RowShop, RowRent, RowUnpadded, RowBadAmount, RowShort}

InitParseFile ==
    /\ raw = EmptyDir
    /\ Constructed
    /\ NoMigrations
    /\ \E rows \in SeqsUpTo(ParseFileRows, MaxLines) :
          \E readFail \in 0..(Len(rows) + 1) :
             arg = File(<<"a">>, Csv, rows, readFail)
    /\ ret = <<>>

\* parse_transaction_file(file_path)
CallParseTransactionFile ==
    /\ ret = <<>>
    /\ ret' = <<parse_transaction_file(arg, 0)>>
    /\ last' = <<0, "parse_transaction_file">>
    /\ UNCHANGED migVars
    /\ UNCHANGED <<fsVars, dbVars, runVars, localVars, arg>>

NextParseFile == CallParseTransactionFile

SpecParseFile == InitParseFile /\ [][NextParseFile]_vars

\* a row the reader yields with no cell, or with cells of white space only
C18_Blank(row) == \A i \in 1..Len(row) : Strip(row[i]) = <<>>

\* what parse_row makes of line k of the file
C18_Outcome(rows, k) == parse_row(rows[k], k, <<0, k>>)

\* the k-th smallest line number of S
C18_Kth(S, k) == CHOOSE n \in S : Cardinality({m \in S : m <= n}) = k

C18_Dates(records) == {records[i].transaction_date : i \in 1..Len(records)}

C18_Fold(rows, out) ==
    LET lines == {k \in 1..Len(rows) : ~C18_Blank(rows[k])}
        good  == {k \in lines : C18_Outcome(rows, k).ok}
        bad   == lines \ good
        dates == C18_Dates(out.parsed_rows)
    IN  /\ Len(out.parsed_rows) + Len(out.errors) = Cardinality(lines)
        /\ Len(out.parsed_rows) = Cardinality(good)
        /\ \A i \in 1..Len(out.parsed_rows) :
              out.parsed_rows[i] = C18_Outcome(rows, C18_Kth(good, i)).val
        /\ Len(out.errors) = Cardinality(bad)
        /\ \A i \in 1..Len(out.errors) :
              out.errors[i] = C18_Outcome(rows, C18_Kth(bad, i)).err
        /\ IF good = {}
           THEN out.min_date = None /\ out.max_date = None
           ELSE /\ out.min_date \in dates
                /\ out.max_date \in dates
                /\ \A d \in dates : ~StrLess(d, out.min_date) /\ ~StrLess(out.max_date, d)

\* C18: parse_transaction_file is a fold that never stops at the first error:
\* for every file read to its end, the records and the errors together are as
\* many as the rows that are not blank, the records are the rows parse_row
\* accepts and the errors the rows it rejects, both in the order of the file,
\* and min_date and max_date are the least and the greatest transaction_date
\* of the records, in the order of str, which is the order of the calendar for
\* dates written YYYY-MM-DD; both are None when no row parsed.
C18_StableFold ==
    (last = <<0, "parse_transaction_file">> /\ arg.readFail = 0)
        => C18_Fold(arg.rows, ret[1])

\* a file whose first line is rejected, whose second is blank and whose third
\* is a record
C18_Witness ==
    /\ last = <<0, "parse_transaction_file">>
    /\ arg.readFail = 0
    /\ arg.rows = <<RowBadAmount, RowBlank, RowRent>>
    /\ Len(ret[1].errors) = 1
    /\ ret[1].errors[1].row_num = 1
    /\ Len(ret[1].parsed_rows) = 1
    /\ ret[1].parsed_rows[1].id = <<0, 3>>
    /\ ret[1].min_date = Date2
    /\ ret[1].max_date = Date2

\* C19: when the file cannot be opened or read, parse_transaction_file returns
\* no record, exactly one ParseError, of row number 0, and min_date = max_date
\* = None, also when reading fails after some rows were read.
C19_ReadFailure ==
    (last = <<0, "parse_transaction_file">> /\ arg.readFail # 0)
        => /\ ret[1].parsed_rows = <<>>
           /\ Len(ret[1].errors) = 1
           /\ ret[1].errors[1].row_num = 0
           /\ ret[1].min_date = None
           /\ ret[1].max_date = None

(***************************************************************************)
(* The canonical filename.                                                 *)
(***************************************************************************)
C20_Prefix == <<"C", "I", "B", "C", "_">>

C20_Stem(name) == SubSeq(name, 1, Len(name) - Len(Csv))

\* the name the claim gives a classified file, from its label, the dates of
\* its parsed rows and its stem
C20_Expected(f) ==
    IF ParsedOf[f].parsed_rows # <<>>
    THEN C20_Prefix \o LabelOf[f] \o <<"_">>
            \o MinStr(C18_Dates(ParsedOf[f].parsed_rows)) \o <<"_", "t", "o", "_">>
            \o MaxStr(C18_Dates(ParsedOf[f].parsed_rows)) \o Csv
    ELSE C20_Prefix \o LabelOf[f] \o <<"_">> \o C20_Stem(f.name) \o Csv

\* that name for the files of Universe, and by the name they had in raw
C20_Names == [f \in Universe |-> C20_Expected(f)]

C20_NamesOf == [n \in Names(Universe) |-> C20_Names[FileOf(n)]]

C20_Name(f) == C20_Names[f]

C20_Named(dir) ==
    \A n \in DOMAIN dir : LabelOf[dir[n]] # None /\ n = C20_Name(dir[n])

\* C20: a classified file with at least one parsed row is held in backup_raw
\* and imported under "CIBC_<label>_<min-date>_to_<max-date>.csv", and that
\* name is the source_filename of every row inserted from it; a file with
\* parse errors and no parsed row is held under "CIBC_<label>_<stem>.csv"; the
\* name depends on the label, the two dates and the stem only.
C20_CanonicalFilename ==
    /\ C20_Named(backup_raw)
    /\ C20_Named(imported)
    /\ \A row \in ledger \cup Pending :
          row.source_filename = C20_NamesOf[row.origin]

\* b.csv, whose second row is the earlier one, imported under its two dates
\* with its rows committed, and savings-business.csv, which cannot be read,
\* left in backup_raw under its stem
C20_Witness ==
    /\ <<"C", "I", "B", "C", "_", "p", "e", "r", "s", "o", "n", "a", "l", "-", "v", "i", "s", "a", "_", "2", "0", "2", "5", "-", "0", "1", "-", "0", "2", "_", "t", "o", "_", "2", "0", "2", "5", "-", "0", "1", "-", "1", "5", ".", "c", "s", "v">> \in DOMAIN imported
    /\ imported[<<"C", "I", "B", "C", "_", "p", "e", "r", "s", "o", "n", "a", "l", "-", "v", "i", "s", "a", "_", "2", "0", "2", "5", "-", "0", "1", "-", "0", "2", "_", "t", "o", "_", "2", "0", "2", "5", "-", "0", "1", "-", "1", "5", ".", "c", "s", "v">>].name = <<"b">> \o Csv
    /\ \E row \in ledger :
          /\ row.origin = <<"b">> \o Csv
          /\ row.source_filename = <<"C", "I", "B", "C", "_", "p", "e", "r", "s", "o", "n", "a", "l", "-", "v", "i", "s", "a", "_", "2", "0", "2", "5", "-", "0", "1", "-", "0", "2", "_", "t", "o", "_", "2", "0", "2", "5", "-", "0", "1", "-", "1", "5", ".", "c", "s", "v">>
    /\ <<"C", "I", "B", "C", "_", "b", "u", "s", "i", "n", "e", "s", "s", "-", "s", "a", "v", "i", "n", "g", "s", "_", "s", "a", "v", "i", "n", "g", "s", "-", "b", "u", "s", "i", "n", "e", "s", "s", ".", "c", "s", "v">> \in DOMAIN backup_raw

(***************************************************************************)
(* database/connection.py: DatabaseConnection used on its own, by a caller *)
(* that writes rows inside "with DatabaseConnection() as conn:", commits   *)
(* them itself or not, and leaves the block at its end or by raising.      *)
(* pc[1] is the caller's position, idx[1] counts the objects it made,      *)
(* ret holds what came out of the with statement (None: no exception).     *)
(***************************************************************************)
MaxWrites == 3

MaxContexts == 2

Writes == 1..MaxWrites

EValue == <<"Test exception">>

InitConnection ==
    /\ raw = EmptyDir
    /\ Constructed
    /\ NoMigrations
    /\ arg = None
    /\ ret = <<>>

At(at) == pc[1] = at

\* DatabaseConnection(): __init__ sets conn to None; the object made before is
\* dropped, and what its connection had not committed is lost with it
DbConstruct ==
    /\ At("idle") \/ At("exited") \/ At("failed")
    /\ ~At("idle") => idx[1] <= MaxContexts
    /\ pc' = [pc EXCEPT ![1] = "new"]
    /\ idx' = [idx EXCEPT ![1] = IF At("idle") THEN 2 ELSE @ + 1]
    /\ conn' = [conn EXCEPT ![1] = "None"]
    /\ txn' = [txn EXCEPT ![1] = {}]
    /\ ret' = <<>>
    /\ last' = <<1, "DbConstruct">>
    /\ UNCHANGED migVars
    /\ UNCHANGED <<fsVars, ledger, connects, files, results, summary, localVars, arg>>

\* __enter__: sqlite3.connect, row_factory, PRAGMA foreign_keys
DbEnter ==
    /\ At("new")
    /\ conn' = [conn EXCEPT ![1] = "open"]
    /\ pc' = [pc EXCEPT ![1] = "inside"]
    /\ last' = <<1, "DbEnter">>
    /\ UNCHANGED migVars
    /\ UNCHANGED <<fsVars, ledger, txn, connects, files, idx, results, summary,
                   localVars, callVars>>

\* __enter__: sqlite3.connect raises; the block and __exit__ are not run
DbEnterRaises ==
    /\ At("new")
    /\ pc' = [pc EXCEPT ![1] = "failed"]
    /\ ret' = <<ECantOpen>>
    /\ last' = <<1, "DbEnterRaises">>
    /\ UNCHANGED migVars
    /\ UNCHANGED <<fsVars, dbVars, files, idx, results, summary, localVars, arg>>

\* conn.execute("INSERT ...") in the block
DbExecute ==
    /\ At("inside")
    /\ \E w \in Writes \ (ledger \cup txn[1]) :
          txn' = [txn EXCEPT ![1] = @ \cup {w}]
    /\ last' = <<1, "DbExecute">>
    /\ UNCHANGED migVars
    /\ UNCHANGED <<fsVars, ledger, conn, connects, runVars, localVars, callVars>>

\* conn.commit() in the block
DbCommit ==
    /\ At("inside")
    /\ txn[1] # {}
    /\ ledger' = ledger \cup txn[1]
    /\ txn' = [txn EXCEPT ![1] = {}]
    /\ last' = <<1, "DbCommit">>
    /\ UNCHANGED migVars
    /\ UNCHANGED <<fsVars, conn, connects, runVars, localVars, callVars>>

\* the block ends; __exit__(None, None, None): commit, close
DbExitClean ==
    /\ At("inside")
    /\ LET x == DbExit(None, ledger, txn[1])
       IN  /\ ledger' = x.ledger
           /\ txn' = [txn EXCEPT ![1] = x.txn]
           /\ conn' = [conn EXCEPT ![1] = x.conn]
    /\ pc' = [pc EXCEPT ![1] = "exited"]
    /\ ret' = <<None>>
    /\ last' = <<1, "DbExitClean">>
    /\ UNCHANGED migVars
    /\ UNCHANGED <<fsVars, connects, files, idx, results, summary, localVars, arg>>

\* the block ends; __exit__(None, None, None): self.conn.commit() raises
\* "database is locked" and the lines after it are not run
DbExitCommitRaises ==
    /\ At("inside")
    /\ txn[1] # {}
    /\ pc' = [pc EXCEPT ![1] = "exited"]
    /\ ret' = <<ELocked>>
    /\ last' = <<1, "DbExitCommitRaises">>
    /\ UNCHANGED migVars
    /\ UNCHANGED <<fsVars, dbVars, files, idx, results, summary, localVars, arg>>

\* the block raises; __exit__(exc_type, exc_val, exc_tb): rollback, close;
\* __exit__ returns None and the exception goes on to the caller
DbBodyRaises ==
    /\ At("inside")
    /\ LET x == DbExit(EValue, ledger, txn[1])
       IN  /\ ledger' = x.ledger
           /\ txn' = [txn EXCEPT ![1] = x.txn]
           /\ conn' = [conn EXCEPT ![1] = x.conn]
    /\ pc' = [pc EXCEPT ![1] = "exited"]
    /\ ret' = <<EValue>>
    /\ last' = <<1, "DbBodyRaises">>
    /\ UNCHANGED migVars
    /\ UNCHANGED <<fsVars, connects, files, idx, results, summary, localVars, arg>>

NextConnection ==
    \/ DbConstruct
    \/ DbEnter
    \/ DbEnterRaises
    \/ DbExecute
    \/ DbCommit
    \/ DbExitClean
    \/ DbExitCommitRaises
    \/ DbBodyRaises

SpecConnection == InitConnection /\ [][NextConnection]_vars

\* the with statement is left: the block ended, or it raised
C21_Leaves == pc[1] = "inside" /\ pc'[1] = "exited"

C21_BlockRaised == last'[2] = "DbBodyRaises"

\* C21: writes made inside the context and not committed by the caller are
\* committed when the block ends without an exception and rolled back when it
\* raises; either way the connection is closed, and the exception of the block
\* reaches the caller.
C21_TransactionSemantics ==
    [][C21_Leaves =>
          /\ ledger' = IF C21_BlockRaised THEN ledger ELSE ledger \cup txn[1]
          /\ txn'[1] = {}
          /\ conn'[1] = "closed"
          /\ C21_BlockRaised => ret' = <<EValue>>]_vars

\* C22: the conn attribute is None before the context is entered, not None
\* inside it, and None again once the context has exited.
C22_HandleLifecycle ==
    /\ pc[1] = "new" => conn[1] = "None"
    /\ pc[1] = "inside" => conn[1] # "None"
    /\ pc[1] = "exited" => conn[1] = "None"

(***************************************************************************)
(* database/migrations.py.  A migration file is its script: "ok" creates   *)
(* what it needs and so fails when run a second time, "again" can be run   *)
(* any number of times, "half" fails after its first statements ran,       *)
(* "invalid" fails at its first statement.  executescript commits          *)
(* statement by statement, so what ran before a failure stays.             *)
(***************************************************************************)
MaxMigrations == 3

MaxExecuted == 4

AllMigrationNames == << <<"2">>, <<"1", "0">>, <<"1">>, <<"0", "3">> >>

MigrationNames == {AllMigrationNames[i] : i \in 1..MaxMigrations}

Scripts == {"ok", "again", "half", "invalid"}

ENotFound == <<"Migration file not found">>
EExists == <<"table already exists">>
ESyntax == <<"syntax error">>
ENoTable == <<"no such table">>
EUnique == <<"UNIQUE constraint failed: migrations.filename">>

Ran(log, filename) == \E i \in 1..Len(log) : log[i] = <<filename, "all">>

\* conn.executescript(sql): the error it raises (None: it ran to its end) and
\* the scripts run so far
executescript(script, filename, log) ==
    CASE script = "invalid" -> [err |-> ESyntax, log |-> log]
      [] script = "half" -> [err |-> ENoTable, log |-> Append(log, <<filename, "some">>)]
      [] script = "ok" /\ Ran(log, filename) -> [err |-> EExists, log |-> log]
      [] OTHER -> [err |-> None, log |-> Append(log, <<filename, "all">>)]

\* apply_migration, from executescript on: INSERT INTO migrations, commit
Record(ran, filename, table) ==
    IF ran.err # None
    THEN [err |-> ran.err, table |-> table, log |-> ran.log]
    ELSE IF filename \in table
    THEN [err |-> EUnique, table |-> table, log |-> ran.log]
    ELSE [err |-> None, table |-> table \cup {filename}, log |-> ran.log]

\* apply_migration(migration_path)
apply_migration(dir, filename, table, log) ==
    IF filename \notin DOMAIN dir
    THEN [err |-> ENotFound, table |-> table, log |-> log]
    ELSE Record(executescript(dir[filename], filename, log), filename, table)

\* sorted(migrations, key=lambda m: m.filename)
Sorted(S) == CHOOSE q \in Orders(S) : \A i, j \in DOMAIN q : i < j => StrLess(q[i], q[j])

\* mutant: every migration file is pending, applied or not
PendingOf_All(dir, table) == Sorted(DOMAIN dir)

\* list_migrations() and the filter of apply_all_pending
PendingOf(dir, table) == Sorted({n \in DOMAIN dir : n \notin table})

InitMigrations ==
    /\ raw = EmptyDir
    /\ Constructed
    /\ arg = None
    /\ ret = <<>>
    /\ \E S \in SUBSET MigrationNames : migrations_dir \in [S -> Scripts]
    /\ migrations = {}
    /\ executed = <<>>
    /\ mpc = "idle"
    /\ pending = <<>>
    /\ applied = <<>>

Loader == <<fsVars, dbVars, runVars, localVars>>

\* apply_all_pending(): nothing is pending, return []
ApplyNone ==
    /\ mpc = "idle"
    /\ PendingOf(migrations_dir, migrations) = <<>>
    /\ ret' = <<Return(<<>>)>>
    /\ arg' = None
    /\ last' = <<0, "ApplyNone">>
    /\ UNCHANGED <<Loader, migVars>>

\* apply_all_pending() up to the for loop
ApplyAllPending ==
    /\ mpc = "idle"
    /\ Len(executed) < MaxExecuted
    /\ PendingOf(migrations_dir, migrations) # <<>>
    /\ pending' = PendingOf(migrations_dir, migrations)
    /\ applied' = <<>>
    /\ mpc' = "loop"
    /\ ret' = <<>>
    /\ arg' = None
    /\ last' = <<0, "ApplyAllPending">>
    /\ UNCHANGED <<Loader, migrations_dir, migrations, executed>>

\* one pass of the for loop: apply_migration returns
ApplyNext ==
    /\ mpc = "loop"
    /\ Len(applied) < Len(pending)
    /\ LET filename == pending[Len(applied) + 1]
           out == apply_migration(migrations_dir, filename, migrations, executed)
       IN  /\ out.err = None
           /\ migrations' = out.table
           /\ executed' = out.log
           /\ applied' = Append(applied, filename)
    /\ last' = <<0, "ApplyNext">>
    /\ UNCHANGED <<Loader, callVars, migrations_dir, mpc, pending>>

\* one pass of the for loop: apply_migration raises, and so does the call
ApplyNextRaises ==
    /\ mpc = "loop"
    /\ Len(applied) < Len(pending)
    /\ LET filename == pending[Len(applied) + 1]
           out == apply_migration(migrations_dir, filename, migrations, executed)
       IN  /\ out.err # None
           /\ migrations' = out.table
           /\ executed' = out.log
           /\ ret' = <<Raise(out.err)>>
    /\ mpc' = "idle"
    /\ last' = <<0, "ApplyNextRaises">>
    /\ UNCHANGED <<Loader, arg, migrations_dir, pending, applied>>

\* the for loop is over: return applied
ApplyReturn ==
    /\ mpc = "loop"
    /\ Len(applied) = Len(pending)
    /\ ret' = <<Return(applied)>>
    /\ mpc' = "idle"
    /\ last' = <<0, "ApplyReturn">>
    /\ UNCHANGED <<Loader, arg, migrations_dir, migrations, executed, pending, applied>>

\* apply_migration(path) called by hand, on a file of the directory or not
ApplyMigration ==
    /\ mpc = "idle"
    /\ Len(executed) < MaxExecuted
    /\ \E filename \in MigrationNames :
          LET out == apply_migration(migrations_dir, filename, migrations, executed)
          IN  /\ arg' = filename
              /\ migrations' = out.table
              /\ executed' = out.log
              /\ ret' = <<IF out.err = None THEN Return(None) ELSE Raise(out.err)>>
    /\ last' = <<0, "apply_migration">>
    /\ UNCHANGED <<Loader, migrations_dir, mpc, pending, applied>>

NextMigrations ==
    \/ ApplyNone
    \/ ApplyAllPending
    \/ ApplyNext
    \/ ApplyNextRaises
    \/ ApplyReturn
    \/ ApplyMigration

SpecMigrations == InitMigrations /\ [][NextMigrations]_vars

\* the migration the for loop of apply_all_pending is at
C23_Next == pending[Len(applied) + 1]

C23_Ascending(q) == \A i, j \in 1..Len(q) : i < j => StrLess(q[i], q[j])

\* a call of apply_all_pending starts with something pending
C23_Starts ==
    /\ pending' = Sorted(DOMAIN migrations_dir \ migrations)
    /\ C23_Ascending(pending')
    /\ applied' = <<>>
    /\ migrations' = migrations
    /\ executed' = executed

\* the loop applies the next pending migration and goes on
C23_Applies ==
    /\ applied' = Append(applied, C23_Next)
    /\ executed' = Append(executed, <<C23_Next, "all">>)
    /\ migrations' = migrations \cup {C23_Next}

\* the next pending migration fails: the call raises, the migrations before it
\* are recorded, the failed one and those after it are neither recorded nor
\* executed
C23_Stops ==
    /\ \E e \in {ENotFound, EExists, ESyntax, ENoTable, EUnique} : ret' = <<Raise(e)>>
    /\ \A i \in 1..Len(applied) : pending[i] \in migrations'
    /\ \A i \in (Len(applied) + 1)..Len(pending) : pending[i] \notin migrations'
    /\ executed' = executed

C23_Step ==
    /\ (mpc = "idle" /\ mpc' = "loop") => C23_Starts
    /\ (mpc = "loop" /\ mpc' = "loop") => C23_Applies
    /\ (mpc = "loop" /\ mpc' = "idle" /\ Len(applied) < Len(pending)) => C23_Stops

\* C23: apply_all_pending applies the pending migrations in ascending order
\* of filename and stops at the first failure: when migration k fails, the
\* pending migrations before k are recorded as applied, k and the migrations
\* after k are not recorded and not executed, and the error propagates.
C23_StopsAtFirstFailure == [][C23_Step]_vars

\* what apply_all_pending ran in this step
C28_Run == {executed'[i][1] : i \in (Len(executed) + 1)..Len(executed')}

C28_InCall == mpc = "loop" \/ mpc' = "loop" \/ last'[2] = "ApplyNone"

C28_NothingPending == DOMAIN migrations_dir \subseteq migrations

C28_Step ==
    /\ C28_InCall => C28_Run \cap migrations = {}
    /\ (mpc = "idle" /\ C28_InCall /\ C28_NothingPending)
          => /\ ret' = <<Return(<<>>)>>
             /\ mpc' = "idle"
             /\ migrations' = migrations
             /\ executed' = executed

\* C28: whatever calls of apply_migration and apply_all_pending came before,
\* apply_all_pending never executes a migration whose filename is recorded in
\* the migrations table, and when nothing is pending it returns an empty list
\* and leaves the migrations table as it is.
C28_AtMostOnce == [][C28_Step]_vars

\* every file of a directory of two is recorded, one by apply_migration and
\* one by apply_all_pending, and a further apply_all_pending returned []
C28_Witness ==
    /\ last = <<0, "ApplyNone">>
    /\ Cardinality(DOMAIN migrations_dir) = 2
    /\ migrations = DOMAIN migrations_dir
    /\ Len(executed) = 2
    /\ applied # <<>>
    /\ ret = <<Return(<<>>)>>

(***************************************************************************)
(* The order of claim and persistence within import_single_file.           *)
(***************************************************************************)
C24_InsertSteps == {"InsertRow", "InsertRowRaises"}

C24_ImportedSteps == {"MkdirImportedRaises", "MoveToImported", "MoveToImportedFails"}

\* the file of run r lies in backup_raw under its canonical name, not in raw
C24_Claimed(r) ==
    /\ file_path(r) \notin DOMAIN raw
    /\ new_filename[r] = CanonicalOf(FileOf(file_path(r)))
    /\ new_filename[r] \in DOMAIN backup_raw
    /\ backup_raw[new_filename[r]].name = file_path(r)

\* the transaction of the file of run r is committed and its connection closed
C24_Committed(r) ==
    /\ txn[r] = {}
    /\ conn[r] = "closed"
    /\ <<r, file_path(r)>> \in connects
    /\ Cardinality(RowsOf(ledger, file_path(r))) = rows_imported[r]

C24_Step(r) ==
    /\ (last'[1] = r /\ last'[2] \in C24_InsertSteps) => C24_Claimed(r)
    /\ (last'[1] = r /\ last'[2] \in C24_ImportedSteps) => C24_Claimed(r) /\ C24_Committed(r)

\* up to the move to backup_raw nothing of the file has reached the database
C24_Unclaimed ==
    \A r \in Runs :
        (idx[r] <= Len(files[r]) /\ pc[r] \in {"loop", "parse", "backup"})
        => /\ RowsOf(ledger \cup Pending, file_path(r)) = {}
           /\ <<r, file_path(r)>> \notin connects

\* C24: within import_single_file no insert into the ledger is attempted for
\* a file before the file was moved from raw to backup_raw under its
\* canonical name, and the move to imported is attempted only after the
\* transaction of the file has committed.
C24_ClaimBeforePersist == []C24_Unclaimed /\ [][\A r \in Runs : C24_Step(r)]_vars

\* a file of two rows was claimed, its two rows inserted and committed, and
\* the move to imported made
C24_Witness ==
    \E r \in Runs :
        /\ Just(r, "MoveToImported")
        /\ Cardinality(RowsOf(ledger, done_path(r))) = 2
        /\ InImported(done_path(r))

(***************************************************************************)
(* Every file is a transaction of its own.                                 *)
(***************************************************************************)
\* the steps that end a file in failed: a failure, an exception, errors
C25_Fails(r) == Len(results'[r].failed) > Len(results[r].failed)

C25_Step(r) ==
    /\ ledger \subseteq ledger'
    /\ last'[1] = r =>
          /\ \A row \in ledger' \ ledger : row.origin = file_path(r)
          /\ \A row \in txn'[r] : row.origin = file_path(r)
    /\ (last'[1] = r /\ C25_Fails(r)) =>
          /\ \A name \in Processed(r) : RowsOf(ledger', name) = RowsOf(ledger, name)
          /\ txn'[r] = {}
          /\ conn'[r] = "None"
          /\ pc'[r] = "loop"
          /\ idx'[r] = idx[r] + 1
    /\ (last'[1] = r /\ last'[2] = "Commit") =>
          /\ txn[r] # {} => <<r, file_path(r)>> \in connects
          /\ RowsOf(ledger', file_path(r)) = txn[r]
          /\ Cardinality(txn[r]) = rows_imported[r]

\* C25: in a run over several files a database failure, a parse error or an
\* exception while one file is processed leaves the rows committed for the
\* files before it unchanged, and the rows of the files after it are
\* committed all the same.
C25_FilesIndependent == [][\A r \in Runs : C25_Step(r)]_vars

\* the rows of a first file are committed and stay, a second file has ended
\* in a database error with its own rows rolled back
C25_Witness ==
    \E r \in Runs :
        /\ Just(r, "CommitRaises")
        /\ idx[r] = 3
        /\ Len(results[r].succeeded) = 1
        /\ Cardinality(RowsOf(ledger, files[r][1])) = Len(FileOf(files[r][1]).rows)
        /\ LastFailed(r).reason = <<"Database error: ", ELocked>>
        /\ LastFailed(r).rows_imported > 0
        /\ RowsOf(ledger, files[r][2]) = {}

(***************************************************************************)
(* A classified file without rows.                                         *)
(***************************************************************************)
C27_Entry(name) ==
    [success |-> FALSE, file |-> name,
     reason |-> <<"No rows found">>, rows_imported |-> 0]

\* the account of the file is identified, and parsing it gives no record and
\* no error
C27_Empty(f) ==
    /\ LabelOf[f] # None
    /\ NoRows(ParsedOf[f].parsed_rows, ParsedOf[f].errors)

C27_Left(r, name) ==
    /\ EntriesFor(results[r].succeeded, name) = {}
    /\ Cardinality(EntriesFor(results[r].failed, name)) = 1
    /\ \A i \in EntriesFor(results[r].failed, name) :
          results[r].failed[i] = C27_Entry(name)
    /\ name \in DOMAIN raw
    /\ raw[name] = FileOf(name)
    /\ name \notin Origins(backup_raw) \cup Origins(imported)
    /\ \A q \in Runs : <<q, name>> \notin connects
    /\ RowsOf(ledger \cup Pending, name) = {}

\* C27: a classified file that yields no record and no parse error ends with
\* success=False, "No rows found", rows_imported=0 before any rename: it stays
\* in raw under its name, no database connection is opened for it, and it is
\* never among the succeeded files.
C27_NoRowsFound ==
    \A r \in Runs : \A name \in Processed(r) :
        C27_Empty(FileOf(name)) => C27_Left(r, name)

\* a run over an empty file named for its account and a file with rows has
\* ended: the empty file is the one failure, the other file is imported
C27_Witness ==
    \E r \in Runs :
        /\ pc[r] = "done"
        /\ summary[r].total = 2
        /\ summary[r].succeeded = 1
        /\ summary[r].failed = 1
        /\ summary[r].failures[1].reason = <<"No rows found">>
        /\ FileOf(summary[r].failures[1].file).rows = <<>>
        /\ summary[r].failures[1].file \in DOMAIN raw

(***************************************************************************)
(* Runs that follow one another import a file at most once.                *)
(***************************************************************************)
\* the runs that opened a connection for the file
C29_Importers(name) == {q \in Runs : <<q, name>> \in connects}

\* every row carries the run and the file it was parsed in; rows of one file
\* come from one run, the one that opened a connection for the file
C29_OneRun(name) ==
    /\ Cardinality(C29_Importers(name)) <= 1
    /\ \A row \in RowsOf(ledger \cup Pending, name) :
          /\ row.id[1][2] = name
          /\ C29_Importers(name) = {row.id[1][1]}

\* the steps after which import_single_file leaves the file in raw: failed
\* identification, no rows, an exception before the move, the failed move
C29_LeavingSteps == {"Identify", "Parse", "MkdirBackupRaises", "MoveToBackupFails"}

C29_LeftReasons(name) ==
    {<<"Account identification failed">>, <<"No rows found">>, EAccess,
     <<"Failed to move to backup: ", EAccess>>, <<"Failed to move to backup: ", ENoEnt>>}

\* the files a run is through with and that are in raw all the same
C29_Left(r) ==
    \A name \in Processed(r) :
        name \in DOMAIN raw
        => /\ EntriesFor(results[r].succeeded, name) = {}
           /\ \A i \in EntriesFor(results[r].failed, name) :
                 results[r].failed[i].reason \in C29_LeftReasons(name)
           /\ \A q \in Runs : q <= r => <<q, name>> \notin connects
           /\ RowsOf(ledger \cup Pending, name) = {}

C29_Inv ==
    /\ \A f \in Universe : C29_OneRun(f.name)
    /\ \A r \in Runs : pc[r] \in {"loop", "done"} => C29_Left(r)

C29_Step(r) ==
    /\ last'[2] = "StartRun" => \A k \in 1..Len(files'[r]) : files'[r][k] \in DOMAIN raw
    /\ last'[2] \in {"InsertRow", "InsertRowRaises"} => file_path(r) \notin DOMAIN raw
    /\ idx'[r] = idx[r] + 1 =>
          (file_path(r) \in DOMAIN raw' <=> last'[2] \in C29_LeavingSteps)

\* C29: over runs of import_transactions that follow one another, with no
\* producer adding files again, the rows of a raw file are inserted into the
\* ledger by at most one run, the file being moved out of raw before any of
\* its rows is inserted; of the files a run discovered, those left in raw are
\* exactly the ones that failed identification, had no rows, failed the move
\* to backup_raw, or raised before the move.
C29_AtMostOnce == []C29_Inv /\ [][\A r \in Runs : last'[1] = r => C29_Step(r)]_vars

\* the first run imported one file and left the other in raw after a failed
\* move; the second run found that file alone and imported it
C29_Witness ==
    \E a, b \in DOMAIN imported :
        /\ pc = [r \in Runs |-> IF r = 2 THEN "done" ELSE "gone"]
        /\ C29_Importers(imported[a].name) = {1}
        /\ C29_Importers(imported[b].name) = {2}
        /\ files[2] = <<imported[b].name>>
        /\ RowsOf(ledger, imported[a].name) # {}
        /\ RowsOf(ledger, imported[b].name) # {}

(***************************************************************************)
(* Blank rows and the row numbers of parse errors.                         *)
(***************************************************************************)
\* the rows of the file that are not blank, by their place in the file
C26_NonBlank(rows) == {k \in 1..Len(rows) : ~IsBlankRow(rows[k])}

\* those of them parse_row rejects
C26_Rejected(rows) == {k \in C26_NonBlank(rows) : ~C18_Outcome(rows, k).ok}

\* the place of row k among the rows that are not blank
C26_Position(rows, k) == Cardinality({m \in C26_NonBlank(rows) : m <= k})

\* the errors of the rows, without the one of a failed read
C26_RowErrors(out) == SelectSeq(out.errors, LAMBDA e : e.message # FileReadError)

C26_Numbered(rows, out) ==
    /\ Len(out.parsed_rows) + Len(C26_RowErrors(out)) = Cardinality(C26_NonBlank(rows))
    /\ Len(C26_RowErrors(out)) = Cardinality(C26_Rejected(rows))
    /\ \A i \in 1..Len(C26_RowErrors(out)) :
          C26_RowErrors(out)[i].row_num
              = C26_Position(rows, C18_Kth(C26_Rejected(rows), i))

\* C26: a blank row (empty, or every field blank) gives neither a record nor
\* a ParseError and is not counted: the row number of a ParseError is the
\* 1-indexed position of the offending row among the rows that are not blank.
C26_BlankRowsNotCounted ==
    ret # <<>> => C26_Numbered(ReadableRows(arg), ret[1])

(***************************************************************************)
(* Two calls of import_transactions at the same time, over one raw         *)
(* directory: the steps of the two runs interleave.                        *)
(***************************************************************************)
\* the two runs
Both == {1, 2}

MaxShared == 1

\* the files the two runs may find in raw
Shared == {f \in Universe : f.name \in {<<"a">> \o Csv, <<"c">> \o Csv, <<"u">> \o Csv}}

InitConcurrent ==
    /\ \E S \in SUBSET Shared :
          /\ Cardinality(S) <= MaxShared
          /\ raw = [n \in Names(S) |-> CHOOSE f \in S : f.name = n]
    /\ Constructed
    /\ NoMigrations
    /\ arg = None
    /\ ret = <<>>

\* import_transactions up to the for loop, whatever the other run is at
StartConcurrent(r) ==
    /\ last' = <<r, "StartConcurrent">>
    /\ UNCHANGED migVars
    /\ UNCHANGED callVars
    /\ pc[r] = "idle"
    /\ \E q \in Orders(get_raw_transaction_files(raw)) :
          files' = [files EXCEPT ![r] = q]
    /\ pc' = [pc EXCEPT ![r] = "loop"]
    /\ UNCHANGED <<fsVars, dbVars, idx, results, summary, localVars>>

NextConcurrent ==
    \E r \in Both :
        \/ StartConcurrent(r)
        \/ Identify(r)
        \/ Parse(r)
        \/ MkdirBackupRaises(r)
        \/ MoveToBackupFails(r)
        \/ MoveToBackup(r)
        \/ Connect(r)
        \/ ConnectRaises(r)
        \/ Cursor(r)
        \/ CursorRaises(r)
        \/ InsertRow(r)
        \/ InsertRowRaises(r)
        \/ Commit(r)
        \/ CommitRaises(r)
        \/ MkdirImportedRaises(r)
        \/ MoveToImported(r)
        \/ MoveToImportedFails(r)
        \/ ReturnWithErrors(r)
        \/ Summarise(r)

SpecConcurrent == InitConcurrent /\ [][NextConcurrent]_vars

\* the runs that have the file: they moved it to backup_raw and are at its
\* rows, or have opened a connection for it
C30_Claimers(name) ==
    {r \in Both :
        \/ <<r, name>> \in connects
        \/ /\ InFile(r, pc[r])
           /\ pc[r] \in {"connect", "cursor", "insert", "finalize"}
           /\ file_path(r) = name}

\* what a run that did not get the file has of it
C30_Lost(r, name) ==
    /\ \A row \in ledger \cup txn[r] : row.id[1] # <<r, name>>
    /\ EntriesFor(results[r].succeeded, name) = {}
    /\ Cardinality(EntriesFor(results[r].failed, name)) = 1

C30_OneClaimer(name) ==
    /\ Cardinality(C30_Claimers(name)) <= 1
    /\ name \in DOMAIN raw => C30_Claimers(name) = {}
    /\ \A row \in RowsOf(ledger \cup Pending, name) :
          /\ row.id[1][2] = name
          /\ row.id[1][1] \in C30_Claimers(name)
    /\ \A r \in Both :
          (name \in Processed(r) /\ r \notin C30_Claimers(name)) => C30_Lost(r, name)

\* import_transactions returned its summary, every file it discovered in it
C30_Returned(r) ==
    /\ summary[r] # None
    /\ summary[r].total = Len(files[r])
    /\ summary[r].succeeded + summary[r].failed = Len(files[r])
    /\ \A k \in 1..Len(files[r]) :
          Cardinality(EntriesFor(results[r].succeeded, files[r][k]))
              + Cardinality(EntriesFor(results[r].failed, files[r][k])) = 1

C30_Inv ==
    /\ \A f \in Shared : C30_OneClaimer(f.name)
    /\ \A r \in Both : pc[r] = "done" => C30_Returned(r)

\* the move to backup_raw takes the file out of raw, and nothing puts a file
\* into raw
C30_Step ==
    /\ DOMAIN raw' \subseteq DOMAIN raw
    /\ \A r \in Both :
          last' = <<r, "MoveToBackup">> =>
              /\ file_path(r) \in DOMAIN raw
              /\ file_path(r) \notin DOMAIN raw'
              /\ C30_Claimers(file_path(r)) = {}

\* C30: two runs of import_transactions interleave in any way over one raw
\* directory and both discover a file: at most one of them moves it to
\* backup_raw and inserts its rows into the ledger; the other inserts no row
\* for the file and has it among its failed files, and import_transactions
\* returns its summary without raising.
C30_ConcurrentRuns == []C30_Inv /\ [][C30_Step]_vars

\* both runs discovered the one file and parsed it; one moved and imported
\* it, the other found it gone at its own move and reports it failed
C30_Witness ==
    \E r, q \in Both :
        /\ r # q
        /\ pc[r] = "done" /\ pc[q] = "done"
        /\ files[r] = files[q]
        /\ Len(files[r]) = 1
        /\ summary[r].succeeded = 1
        /\ RowsOf(ledger, files[r][1]) # {}
        /\ \A row \in ledger : row.id[1][1] = r
        /\ summary[q].failed = 1
        /\ summary[q].failures[1].reason = <<"Failed to move to backup: ", ENoEnt>>

====
